---- MODULE Spec2Model ----
(***************************************************************************)
(* State-machine model of the delve debugger front end of nvim-go          *)
(* (src/src/nvim-go/commands/delve.go): the package-level session state,   *)
(* the command handlers that run as goroutines, the debug server they talk *)
(* to, and the breakpoint reconciliation loop of delveContinue/delveNext.  *)
(***************************************************************************)
EXTENDS Integers, Sequences, FiniteSets, TLC

\* ------------------------------------------------------------------ bounds
\* Largest cumulative hit count the modelled debug server reports.
MaxHits == 2
\* Handler goroutines that may be alive at the same time (go delveX(v)).
Handlers == {1, 2}
\* Breakpoint ids of the modelled session: the unrecovered-panic breakpoint
\* (-1) and one breakpoint created by the user.
PanicBpId == -1
BpIds == {PanicBpId, 1}
\* Breakpoint names (a descriptor field that reconciliation must not touch).
Names == {"unrecovered-panic", "mainMain"}
\* Process id the debug server reports for the debuggee.
SrvPid == 1

\* ------------------------------------------------------------ descriptors
\* delveapi.Breakpoint, reduced to the fields the handlers read or write.
\* HitCount is the per-goroutine map of a debuggee with one goroutine.
Bp(id, name, total, hits) ==
    [ID |-> id, Name |-> name, TotalHitCount |-> total, HitCount |-> hits]

\* The name the server stores for a breakpoint id.
SrvName(id) == IF id = PanicBpId THEN "unrecovered-panic" ELSE "mainMain"

\* The empty map (also the nil map: reading a missing key yields nil).
EmptyMap == [id \in {} |-> Bp(0, "", 0, 0)]

\* ------------------------------------------------------------------ state
VARIABLES
    server,       \* package var server: "nil", or the state of the exec.Cmd
                  \* it names: "unstarted" (Process == nil), "running"
                  \* (listening on addr), "unbound" (running, but addr was
                  \* taken: it answers nobody), "killed", "exited"
    orphans,      \* 1 while a debug server process listens on addr whose
                  \* exec.Cmd the package variable names no more, else 0
    delve,        \* package var delve: [client, procPid]; client is "nil"
                  \* while delve itself is nil, "open", "broken" (the
                  \* server it was connected to has ended) or "detached"
    breakpoints,  \* delve.breakpoints: id -> descriptor
    srvBps,       \* debug server: breakpoint id -> cumulative hit count
    srvExited,    \* debug server: the debuggee has exited
    pc,           \* handler goroutine -> position
    followups,    \* the goroutines that Delve.cont and Delve.next have
                  \* started after a stop and that still run: pairs of the
                  \* starting handler and the kind of work
    buffer,       \* Delve.BufferContext: the debug buffers of the session
                  \* have been created
    output,       \* package vars stdout, stderr (bytes.Buffer): the length
                  \* of each; the debug server's output is followed only
                  \* where parseThread is specified on its own
    frame,        \* the argument and the local variables of the handler
                  \* whose argument parsing is specified on its own
    payload,      \* handler goroutine -> breakpoints returned by ListBreakpoints
    idx,          \* handler goroutine -> index of its reconciliation loop
    ret,          \* the handler function that has just returned, and its
                  \* result ("nil" or "err")
    crashed,      \* "no", or the reason the plugin host process died
    reported      \* what the last continue/next response told a handler:
                  \* "none" (nothing since the session or debuggee started),
                  \* "stopped", "exited"

vars == <<server, orphans, delve, breakpoints, srvBps, srvExited,
          pc, followups, buffer, output, frame, payload, idx, ret, crashed, reported>>

\* ------------------------------------------------- reconciliation (pure)
\* delveContinue/delveNext, the condition of the loop body:
\*   delve.breakpoints[bp.ID].TotalHitCount != bp.TotalHitCount
Differs(reg, bp) == reg[bp.ID].TotalHitCount # bp.TotalHitCount

\* A loop body that would leave the cached cumulative count alone (a
\* variant that C22 must tell from the assignment of the source).
SetTotalKeep(reg, bp) == reg

\* delve.breakpoints[bp.ID].TotalHitCount = bp.TotalHitCount
SetTotal(reg, bp) ==
    [reg EXCEPT ![bp.ID].TotalHitCount = bp.TotalHitCount]

\* delve.breakpoints[bp.ID].HitCount = bp.HitCount
SetHits(reg, bp) == [reg EXCEPT ![bp.ID].HitCount = bp.HitCount]

\* A loop body that would copy the server's whole descriptor (a variant
\* that C4 must tell from the loop of the source).
ReconcileOneWhole(reg, bp) ==
    IF Differs(reg, bp) THEN [reg EXCEPT ![bp.ID] = bp] ELSE reg

\* A loop body that would write one of the two fields per pass (a variant
\* that C5 must tell from the loop of the source).
ReconcileOneSplit(reg, bp) ==
    IF Differs(reg, bp) THEN SetTotal(reg, bp) ELSE SetHits(reg, bp)

\* One iteration of the loop on a registered id.  The else branch rebinds
\* the loop variable only (bp = delve.breakpoints[bp.ID]).
ReconcileOne(reg, bp) ==
    IF Differs(reg, bp) THEN SetHits(SetTotal(reg, bp), bp) ELSE reg

\* The whole loop run by one goroutine alone, from element i of the list.
\* A missing map key yields a nil *Breakpoint, and reading its field
\* panics: the loop stops there with what it has written so far.
RECURSIVE ReconcileFrom(_, _, _)
ReconcileFrom(reg, bps, i) ==
    IF i > Len(bps) THEN [reg |-> reg, panicked |-> FALSE]
    ELSE IF bps[i].ID \notin DOMAIN reg THEN [reg |-> reg, panicked |-> TRUE]
    ELSE ReconcileFrom(ReconcileOne(reg, bps[i]), bps, i + 1)

ReconcilePass(reg, bps) == ReconcileFrom(reg, bps, 1)

\* sort.Sort(ByID(breakpoint)): the descriptors of a set of distinct ids in
\* ascending id order.
RECURSIVE SortByID(_)
SortByID(S) ==
    IF S = {} THEN <<>>
    ELSE LET m == CHOOSE x \in S : \A y \in S : x.ID <= y.ID
         IN  <<m>> \o SortByID(S \ {m})

\* ---------------------------------------------------------- debug server
\* A debug server process listens on addr and answers RPCs.
SrvUp == server = "running" \/ orphans > 0

\* An RPC on the session's client gets an answer.
Usable == delve.client = "open" /\ SrvUp

\* The server's descriptor of breakpoint id.
SrvBp(id) == Bp(id, SrvName(id), srvBps[id], srvBps[id])

\* ListBreakpoints, after the handler's sort.
SrvList == SortByID({SrvBp(id) : id \in DOMAIN srvBps})

\* State of a freshly started debug server: the default breakpoint only.
FreshBps == [id \in {PanicBpId} |-> 0]

\* The breakpoints and the debuggee live in the listening debug server
\* process: once it has ended (up is SrvUp of the next state) they are
\* gone and the connection of the client is broken.
SrvStateAfter(up) ==
    IF up THEN UNCHANGED <<srvBps, srvExited, delve>>
    ELSE /\ srvBps' = FreshBps
         /\ srvExited' = FALSE
         /\ delve' = IF delve.client = "open"
                     THEN [delve EXCEPT !.client = "broken"] ELSE delve

\* The package variable delve before delveStartClient has run.
NoDelve == [client |-> "nil", procPid |-> 0]

\* No argument is being parsed.
NoFrame == <<>>

\* stdout and stderr before the debug server has written anything.
NoOutput == [stdout |-> 0, stderr |-> 0]

\* --------------------------------------------------------------- initial
\* No handler function has just returned.
NoRet == [cmd |-> "none", val |-> "none"]

Init ==
    /\ server = "nil"
    /\ orphans = 0
    /\ delve = NoDelve
    /\ breakpoints = EmptyMap
    /\ srvBps = FreshBps
    /\ srvExited = FALSE
    /\ pc = [g \in Handlers |-> "idle"]
    /\ followups = {}
    /\ buffer = FALSE
    /\ output = NoOutput
    /\ frame = NoFrame
    /\ payload = [g \in Handlers |-> <<>>]
    /\ idx = [g \in Handlers |-> 0]
    /\ ret = NoRet
    /\ crashed = "no"
    /\ reported = "none"

\* ------------------------------------------------------- handler plumbing
\* The host process is alive and the last result has been handed over.
Live == crashed = "no" /\ ret = NoRet

\* delveStartClient and delveBreakpoint are registered without a go
\* wrapper: they run on the host's command goroutine, which starts no
\* other command until they have returned.
DirectBusy == \E h \in Handlers : pc[h] \in {"sc_pid", "sc_seed", "bp_wait"}

\* A command can start in slot g: the wrappers cmdDelveX (go delveX(v)) and
\* the direct registrations.  Slots are interchangeable, so the lowest idle
\* one is taken.
CanStart(g) ==
    /\ Live
    /\ pc[g] = "idle"
    /\ ~DirectBusy
    /\ \A h \in Handlers : h < g => pc[h] # "idle"

\* Handler g is at position p.
At(g, p) == Live /\ pc[g] = p

\* Handler g moves on to position p.
Goto(g, p) ==
    pc' = [pc EXCEPT ![g] = p] /\ UNCHANGED <<followups, buffer, output, frame, ret>>

\* Handler function c, run by g, returns v; the goroutine is gone.
Return(g, c, v) ==
    /\ pc' = [pc EXCEPT ![g] = "idle"]
    /\ UNCHANGED <<followups, buffer, output, frame>>
    /\ payload' = [payload EXCEPT ![g] = <<>>]
    /\ idx' = [idx EXCEPT ![g] = 0]
    /\ ret' = [cmd |-> c, val |-> v]

\* The result is handed to the caller (or dropped by the go wrapper).
Finish ==
    /\ crashed = "no"
    /\ ret # NoRet
    /\ ret' = NoRet
    /\ UNCHANGED <<server, orphans, delve, breakpoints, srvBps, srvExited,
                   pc, followups, buffer, output, frame, payload, idx, crashed,
                   reported>>

\* A panic in any goroutine, or log.Fatal, ends the plugin host process:
\* its goroutines and package variables are gone.  The debug server
\* processes outlive it; the model follows them no further.
Crash(why) ==
    /\ crashed' = why
    /\ server' = "nil"
    /\ delve' = NoDelve
    /\ breakpoints' = EmptyMap
    /\ pc' = [g \in Handlers |-> "idle"]
    /\ followups' = {}
    /\ buffer' = FALSE
    /\ output' = NoOutput
    /\ frame' = NoFrame
    /\ payload' = [g \in Handlers |-> <<>>]
    /\ idx' = [g \in Handlers |-> 0]
    /\ ret' = NoRet
    /\ reported' = "none"

\* ------------------------------------------------------ delveStartServer
\* bin, err := exec.LookPath("astdump") fails, or
\* server = exec.Command("dlv", serverArgs...): the package variable names
\* a new exec.Cmd, whatever it named before.
StartServerCommand(g) ==
    /\ CanStart(g)
    /\ \/ /\ Return(g, "startServer", "err")
          /\ UNCHANGED <<server, orphans>>
       \/ /\ orphans' = IF server = "running" THEN 1 ELSE orphans
          /\ server' = "unstarted"
          /\ Goto(g, "ss_run")
          /\ UNCHANGED <<payload, idx>>
    /\ UNCHANGED <<delve, breakpoints, srvBps, srvExited, crashed, reported>>

\* server.Run(): the exec.Cmd the package variable names at this moment is
\* started.  Starting fails (Process stays nil, or the Cmd was started
\* already) and the handler returns the error; or the debug server process
\* now runs (it listens on addr unless another process does) and the
\* goroutine stays blocked in Run until the process ends.  What Run returns
\* then goes to nobody (go delveStartServer), so the blocked goroutine is
\* not kept as a handler of the model.
StartServerRun(g) ==
    /\ At(g, "ss_run")
    /\ \/ /\ Return(g, "startServer", "err")
          /\ UNCHANGED server
       \/ /\ server = "unstarted"
          /\ server' = IF SrvUp THEN "unbound" ELSE "running"
          /\ Goto(g, "idle")
          /\ UNCHANGED <<payload, idx>>
    /\ UNCHANGED <<orphans, delve, breakpoints, srvBps, srvExited, crashed,
                   reported>>

\* A debug server process ends by itself: the one the package variable
\* names, or the other one.
ProcExit ==
    /\ Live
    /\ \/ /\ server \in {"running", "unbound"}
          /\ server' = "exited"
          /\ UNCHANGED orphans
          /\ SrvStateAfter(orphans > 0)
       \/ /\ orphans > 0
          /\ orphans' = 0
          /\ UNCHANGED server
          /\ SrvStateAfter(FALSE)
    /\ UNCHANGED <<breakpoints, pc, followups, buffer, output, frame, payload, idx,
                   ret, crashed,
                   reported>>

\* ------------------------------------------------------ delveStartClient
\* if server == nil { return error }; delve = NewDelveClient(addr);
\* delve.client = delverpc2.NewClient(addr), which ends the process with
\* log.Fatal when it cannot dial.
StartClientDial(g) ==
    /\ CanStart(g)
    /\ IF server = "nil"
       THEN /\ Return(g, "startClient", "err")
            /\ UNCHANGED <<server, delve, breakpoints, crashed, reported>>
       ELSE IF SrvUp
       THEN /\ delve' = [client |-> "open", procPid |-> 0]
            /\ breakpoints' = EmptyMap
            /\ reported' = "none"
            /\ Goto(g, "sc_pid")
            /\ UNCHANGED <<server, payload, idx, crashed>>
       ELSE Crash("dial")
    /\ UNCHANGED <<orphans, srvBps, srvExited>>

\* delve.procPid = delve.client.ProcessPid(): 0 when the call fails.
StartClientPid(g) ==
    /\ At(g, "sc_pid")
    /\ delve' = [delve EXCEPT !.procPid = IF Usable THEN SrvPid ELSE 0]
    /\ Goto(g, "sc_seed")
    /\ UNCHANGED <<server, orphans, breakpoints, srvBps, srvExited, payload,
                   idx, crashed, reported>>

\* delve.breakpoints = make(map); panic, err := GetBreakpoint(-1);
\* if err != nil { return error }; delve.breakpoints[-1] = panic
StartClientSeed(g) ==
    /\ At(g, "sc_seed")
    /\ IF Usable
       THEN /\ breakpoints' = [id \in {PanicBpId} |-> SrvBp(PanicBpId)]
            /\ Return(g, "startClient", "nil")
       ELSE /\ breakpoints' = EmptyMap
            /\ Return(g, "startClient", "err")
    /\ UNCHANGED <<server, orphans, delve, srvBps, srvExited, crashed,
                   reported>>

\* ------------------------------------------- delveBreakpoint, delveCommand
\* Ids the server can still give to a new breakpoint.
FreeIds == {id \in BpIds : id > 0 /\ id \notin DOMAIN srvBps}

\* The server creates a breakpoint and gives it the next id.
NewId == CHOOSE id \in FreeIds : \A o \in FreeIds : id <= o

SrvCreate == [id \in DOMAIN srvBps \cup {NewId} |->
                 IF id = NewId THEN 0 ELSE srvBps[id]]

\* The first statement of a handler that uses delve.client: a panic while
\* delve is nil, else the RPC is sent and the handler waits at position p.
CallOrPanic(g, p) ==
    /\ CanStart(g)
    /\ IF delve = NoDelve
       THEN Crash("nil-delve")
       ELSE /\ Goto(g, p)
            /\ UNCHANGED <<server, delve, breakpoints, payload, idx, crashed,
                           reported>>
    /\ UNCHANGED <<orphans, srvBps, srvExited>>

\* The shapes of the arguments of DlvBreakpoint: none, one symbol without
\* a dot, a function (pkg.Func, or a function and a name), more than two.
BpArgs == {"none", "nodot", "func", "many"}

\* delveBreakpoint called with arguments of shape a.  switch len(args):
\* 0 and more than 2 return an error; for one argument
\* strings.Split(args[0], ".")[1] is indexed, which panics when there is no
\* dot; otherwise delve.client.CreateBreakpoint(...) is sent.
BreakpointArgs(g, a) ==
    IF a \in {"none", "many"}
    THEN /\ CanStart(g)
         /\ Return(g, "breakpoint", "err")
         /\ UNCHANGED <<server, orphans, delve, breakpoints, srvBps,
                        srvExited, crashed, reported>>
    ELSE IF a = "nodot"
    THEN /\ CanStart(g)
         /\ Crash("index")
         /\ UNCHANGED <<orphans, srvBps, srvExited>>
    ELSE CallOrPanic(g, "bp_wait")

BreakpointCall(g) == \E a \in BpArgs : BreakpointArgs(g, a)

\* The answer: an error (no connection, or the server rejects the
\* breakpoint), or the new descriptor, stored as
\* delve.breakpoints[newbp.ID] = newbp.
BreakpointStore(g) ==
    /\ At(g, "bp_wait")
    /\ IF Usable /\ FreeIds # {}
       THEN /\ srvBps' = SrvCreate
            /\ breakpoints' =
                 [id \in DOMAIN breakpoints \cup {NewId} |->
                    IF id = NewId THEN Bp(NewId, SrvName(NewId), 0, 0)
                    ELSE breakpoints[id]]
            /\ Return(g, "breakpoint", "nil")
       ELSE /\ Return(g, "breakpoint", "err")
            /\ UNCHANGED <<srvBps, breakpoints>>
    /\ UNCHANGED <<server, orphans, delve, srvExited, crashed, reported>>

\* delve.debugger.Call(args[0], ...) is sent ("break main.main").
CommandCall(g) == CallOrPanic(g, "cmd_wait")

\* The answer of the free-form command: the server has created the
\* breakpoint, the registry is not told.
CommandDone(g) ==
    /\ At(g, "cmd_wait")
    /\ IF Usable /\ FreeIds # {}
       THEN srvBps' = SrvCreate /\ Return(g, "command", "nil")
       ELSE Return(g, "command", "err") /\ UNCHANGED srvBps
    /\ UNCHANGED <<server, orphans, delve, breakpoints, srvExited, crashed,
                   reported>>

\* ------------------------------------------------ delveContinue, delveNext
\* stateCh := delve.client.Continue() is sent.
ContinueCall(g) == CallOrPanic(g, "cont_wait")

\* state, err := delve.client.Next() is sent.
NextCall(g) == CallOrPanic(g, "next_wait")

\* A delveContinue that would go on to ListBreakpoints and the
\* reconciliation after an exited state too (a variant that C31 must tell
\* from delveContinue).
ContinueStateListsOnExit(g) ==
    /\ At(g, "cont_wait")
    /\ IF ~Usable
       THEN /\ Goto(g, "list")
            /\ UNCHANGED <<srvBps, srvExited, reported, payload, idx>>
       ELSE IF srvExited
       THEN /\ Goto(g, "list")
            /\ reported' = "exited"
            /\ UNCHANGED <<srvBps, srvExited, payload, idx>>
       ELSE \/ \E id \in DOMAIN srvBps :
                 /\ id > 0
                 /\ srvBps[id] < MaxHits
                 /\ srvBps' = [srvBps EXCEPT ![id] = @ + 1]
                 /\ reported' = "stopped"
                 /\ \/ Goto(g, "list") /\ UNCHANGED <<payload, idx>>
                    \/ Return(g, "continue", "err")
                 /\ UNCHANGED srvExited
            \/ /\ srvExited' = TRUE
               /\ reported' = "exited"
               /\ Goto(g, "list")
               /\ UNCHANGED <<srvBps, payload, idx>>
    /\ UNCHANGED <<server, orphans, delve, breakpoints, crashed>>

\* state := <-stateCh.  Without a connection the state carries the error
\* and is not Exited, and the handler goes on to ListBreakpoints.  An exited
\* debuggee is reported as exited (the handler echoes the message and
\* returns); otherwise the debuggee runs until it hits a user breakpoint
\* or exits.  After a stop parseThread(v, state.CurrentThread) renders the
\* thread and moves the cursor: if it fails the handler returns its error.
ContinueState(g) ==
    /\ At(g, "cont_wait")
    /\ IF ~Usable
       THEN /\ Goto(g, "list")
            /\ UNCHANGED <<srvBps, srvExited, reported, payload, idx>>
       ELSE IF srvExited
       THEN /\ Return(g, "continue", "nil")
            /\ reported' = "exited"
            /\ UNCHANGED <<srvBps, srvExited>>
       ELSE \/ \E id \in DOMAIN srvBps :
                 /\ id > 0
                 /\ srvBps[id] < MaxHits
                 /\ srvBps' = [srvBps EXCEPT ![id] = @ + 1]
                 /\ reported' = "stopped"
                 /\ \/ Goto(g, "list") /\ UNCHANGED <<payload, idx>>
                    \/ Return(g, "continue", "err")
                 /\ UNCHANGED srvExited
            \/ /\ srvExited' = TRUE
               /\ reported' = "exited"
               /\ Return(g, "continue", "nil")
               /\ UNCHANGED srvBps
    /\ UNCHANGED <<server, orphans, delve, breakpoints, crashed>>

\* The answer of Next: an error returns; an exited debuggee is reported;
\* otherwise the debuggee steps one line (no breakpoint hit) or exits.
NextState(g) ==
    /\ At(g, "next_wait")
    /\ IF ~Usable
       THEN /\ Return(g, "next", "err")
            /\ UNCHANGED <<srvExited, reported>>
       ELSE IF srvExited
       THEN /\ Return(g, "next", "nil")
            /\ reported' = "exited"
            /\ UNCHANGED srvExited
       ELSE \/ /\ Goto(g, "list")
               /\ reported' = "stopped"
               /\ UNCHANGED <<srvExited, payload, idx>>
            \/ /\ srvExited' = TRUE
               /\ reported' = "exited"
               /\ Return(g, "next", "nil")
    /\ UNCHANGED <<server, orphans, delve, breakpoints, srvBps, crashed>>

\* breakpoint, err := delve.client.ListBreakpoints(); sort.Sort(ByID(...))
ListBreakpoints(g) ==
    /\ At(g, "list")
    /\ IF Usable
       THEN /\ payload' = [payload EXCEPT ![g] = SrvList]
            /\ idx' = [idx EXCEPT ![g] = 1]
            /\ Goto(g, "rec_cmp")
       ELSE Return(g, "reconcile", "err")
    /\ UNCHANGED <<server, orphans, delve, breakpoints, srvBps, srvExited,
                   crashed, reported>>

\* The descriptor the loop of handler g is at.
Cur(g) == payload[g][idx[g]]

\* for _, bp := range breakpoint: the loop ends (the table is rendered,
\* delveNext calls parseThread, and the handler returns nil or the error of
\* the rendering), or the condition
\*   delve.breakpoints[bp.ID].TotalHitCount != bp.TotalHitCount
\* is evaluated; it panics when the id is not in the map.
ReconcileCompare(g) ==
    /\ At(g, "rec_cmp")
    /\ IF idx[g] > Len(payload[g])
       THEN /\ \E v \in {"nil", "err"} : Return(g, "reconcile", v)
            /\ UNCHANGED <<server, delve, breakpoints, crashed, reported>>
       ELSE IF Cur(g).ID \notin DOMAIN breakpoints
       THEN Crash("nil-breakpoint")
       ELSE /\ IF Differs(breakpoints, Cur(g))
               THEN Goto(g, "rec_total") /\ UNCHANGED idx
               ELSE /\ idx' = [idx EXCEPT ![g] = @ + 1]
                    /\ UNCHANGED <<pc, followups, buffer, output, frame, ret>>
            /\ UNCHANGED <<server, delve, breakpoints, payload, crashed,
                           reported>>
    /\ UNCHANGED <<orphans, srvBps, srvExited>>

\* delve.breakpoints[bp.ID].TotalHitCount = bp.TotalHitCount
ReconcileTotal(g) ==
    /\ At(g, "rec_total")
    /\ IF Cur(g).ID \notin DOMAIN breakpoints
       THEN Crash("nil-breakpoint")
       ELSE /\ breakpoints' = SetTotal(breakpoints, Cur(g))
            /\ Goto(g, "rec_hits")
            /\ UNCHANGED <<server, delve, payload, idx, crashed, reported>>
    /\ UNCHANGED <<orphans, srvBps, srvExited>>

\* delve.breakpoints[bp.ID].HitCount = bp.HitCount
ReconcileHits(g) ==
    /\ At(g, "rec_hits")
    /\ IF Cur(g).ID \notin DOMAIN breakpoints
       THEN Crash("nil-breakpoint")
       ELSE /\ breakpoints' = SetHits(breakpoints, Cur(g))
            /\ idx' = [idx EXCEPT ![g] = @ + 1]
            /\ Goto(g, "rec_cmp")
            /\ UNCHANGED <<server, delve, payload, crashed, reported>>
    /\ UNCHANGED <<orphans, srvBps, srvExited>>

\* ----------------------------------------------------------- delveRestart
\* err := delve.client.Restart() is sent.
RestartCall(g) == CallOrPanic(g, "rs_wait")

\* The answer: the server has started a fresh debuggee, whose breakpoints
\* have not been hit yet.
RestartDone(g) ==
    /\ At(g, "rs_wait")
    /\ IF Usable
       THEN /\ srvBps' = [id \in DOMAIN srvBps |-> 0]
            /\ srvExited' = FALSE
            /\ reported' = "none"
            /\ Return(g, "restart", "nil")
       ELSE /\ Return(g, "restart", "err")
            /\ UNCHANGED <<srvBps, srvExited, reported>>
    /\ UNCHANGED <<server, orphans, delve, breakpoints, crashed>>

\* -------------------------------------------------------------- delveKill
\* A kill that would spare the process while a handler waits for an RPC
\* answer (a variant that C8 must tell from delveKill).
KillProcsUnlessWaiting ==
    IF server \in {"running", "unbound"}
       /\ \A g \in Handlers : pc[g] \in {"idle", "ss_run"}
    THEN "killed" ELSE server

\* What server.Process.Kill() does to the exec.Cmd the package variable
\* names: only a running process is signalled.
KillProcs == IF server \in {"running", "unbound"} THEN "killed" ELSE server

\* The outcome of delveKill: nil when server == nil or the process was
\* killed, a panic when server.Process is nil (the Cmd never started), the
\* error of Kill when the process has ended already.
KillOutcome ==
    IF server = "nil" THEN "nil"
    ELSE IF server = "unstarted" THEN "panic"
    ELSE IF server \in {"running", "unbound"} THEN "nil"
    ELSE "err"

\* delveKill run by the kill command.
Kill(g) ==
    /\ CanStart(g)
    /\ IF KillOutcome = "panic"
       THEN Crash("nil-process") /\ UNCHANGED <<srvBps, srvExited>>
       ELSE /\ server' = KillProcs
            /\ SrvStateAfter(KillProcs = "running" \/ orphans > 0)
            /\ Return(g, "kill", KillOutcome)
            /\ UNCHANGED <<breakpoints, crashed, reported>>
    /\ UNCHANGED orphans

\* ------------------------------------------------------------ delveDetach
\* defer delveKill(); if delve.procPid == 0 { return nil }; the debug
\* buffers are deleted (p.Wait() may fail); delve.client.Detach(true) is
\* sent.  Reading delve.procPid panics when delve is nil; the deferred
\* delveKill still runs.
DetachCheck(g) ==
    /\ CanStart(g)
    /\ IF delve = NoDelve THEN Goto(g, "dt_kill_panic")
       ELSE IF delve.procPid = 0 THEN Goto(g, "dt_kill_nil")
       ELSE \/ Goto(g, "dt_kill_err")
            \/ Goto(g, "dt_wait")
    /\ UNCHANGED <<server, orphans, delve, breakpoints, srvBps, srvExited,
                   payload, idx, crashed, reported>>

\* The answer of Detach(true): an error, or the server has killed the
\* debuggee and closed the connection.
DetachDone(g) ==
    /\ At(g, "dt_wait")
    /\ IF Usable
       THEN /\ delve' = [delve EXCEPT !.client = "detached"]
            /\ srvExited' = TRUE
            /\ Goto(g, "dt_kill_nil")
       ELSE /\ Goto(g, "dt_kill_err")
            /\ UNCHANGED <<delve, srvExited>>
    /\ UNCHANGED <<server, orphans, breakpoints, srvBps, payload, idx, crashed,
                   reported>>

\* The deferred delveKill of delveDetach; its result is dropped and
\* delveDetach returns what it had decided to return, or goes on
\* panicking.
DetachKill(g) ==
    /\ Live
    /\ pc[g] \in {"dt_kill_nil", "dt_kill_err", "dt_kill_panic"}
    /\ IF KillOutcome = "panic"
       THEN Crash("nil-process") /\ UNCHANGED <<srvBps, srvExited>>
       ELSE IF pc[g] = "dt_kill_panic"
       THEN Crash("nil-delve") /\ UNCHANGED <<srvBps, srvExited>>
       ELSE /\ server' = KillProcs
            /\ SrvStateAfter(KillProcs = "running" \/ orphans > 0)
            /\ Return(g, "detach",
                      IF pc[g] = "dt_kill_nil" THEN "nil" ELSE "err")
            /\ UNCHANGED <<breakpoints, crashed, reported>>
    /\ UNCHANGED orphans

\* ----------------------------------------------------------- specification
Next ==
    \/ Finish
    \/ \E g \in Handlers : StartServerCommand(g)
    \/ \E g \in Handlers : StartServerRun(g)
    \/ ProcExit
    \/ \E g \in Handlers : StartClientDial(g)
    \/ \E g \in Handlers : StartClientPid(g)
    \/ \E g \in Handlers : StartClientSeed(g)
    \/ \E g \in Handlers : BreakpointCall(g)
    \/ \E g \in Handlers : BreakpointStore(g)
    \/ \E g \in Handlers : CommandCall(g)
    \/ \E g \in Handlers : CommandDone(g)
    \/ \E g \in Handlers : ContinueCall(g)
    \/ \E g \in Handlers : NextCall(g)
    \/ \E g \in Handlers : ContinueState(g)
    \/ \E g \in Handlers : NextState(g)
    \/ \E g \in Handlers : ListBreakpoints(g)
    \/ \E g \in Handlers : ReconcileCompare(g)
    \/ \E g \in Handlers : ReconcileTotal(g)
    \/ \E g \in Handlers : ReconcileHits(g)
    \/ \E g \in Handlers : RestartCall(g)
    \/ \E g \in Handlers : RestartDone(g)
    \/ \E g \in Handlers : Kill(g)
    \/ \E g \in Handlers : DetachCheck(g)
    \/ \E g \in Handlers : DetachDone(g)
    \/ \E g \in Handlers : DetachKill(g)

Spec == Init /\ [][Next]_vars

\* ---------------------------------------------- one command at a time
\* The steps of a user who starts no command before the last one is done:
\* one handler goroutine at a time, so slot 1 only.
NextSerial ==
    \/ Finish
    \/ ProcExit
    \/ StartServerCommand(1)
    \/ StartServerRun(1)
    \/ StartClientDial(1)
    \/ StartClientPid(1)
    \/ StartClientSeed(1)
    \/ BreakpointCall(1)
    \/ BreakpointStore(1)
    \/ CommandCall(1)
    \/ CommandDone(1)
    \/ ContinueCall(1)
    \/ NextCall(1)
    \/ ContinueState(1)
    \/ NextState(1)
    \/ ListBreakpoints(1)
    \/ ReconcileCompare(1)
    \/ ReconcileTotal(1)
    \/ ReconcileHits(1)
    \/ RestartCall(1)
    \/ RestartDone(1)
    \/ Kill(1)
    \/ DetachCheck(1)
    \/ DetachDone(1)
    \/ DetachKill(1)

SpecSerial == Init /\ [][NextSerial]_vars

\* ------------------------------------- the reconciliation loop on its own
\* Registries and ListBreakpoints answers over the session's ids.  A cached
\* descriptor carries the name the server gave it; an answer may carry any
\* name and any counters.
RegistriesOver(D) ==
    {[id \in D |-> Bp(id, SrvName(id), f[id].t, f[id].h)] :
        f \in [D -> [t : 0..MaxHits, h : 0..MaxHits]]}

Registries == UNION {RegistriesOver(D) : D \in SUBSET BpIds}

PayloadsOver(D) ==
    {SortByID({Bp(id, f[id].n, f[id].t, f[id].h) : id \in D}) :
        f \in [D -> [n : Names, t : 0..MaxHits, h : 0..MaxHits]]}

Payloads == UNION {PayloadsOver(D) : D \in SUBSET BpIds}

\* A session with a client, an arbitrary registry and no handler running.
InitReconcile ==
    /\ server = "running"
    /\ orphans = 0
    /\ delve = [client |-> "open", procPid |-> SrvPid]
    /\ breakpoints \in Registries
    /\ srvBps = FreshBps
    /\ srvExited = FALSE
    /\ pc = [g \in Handlers |-> "idle"]
    /\ followups = {}
    /\ buffer = FALSE
    /\ output = NoOutput
    /\ frame = NoFrame
    /\ payload = [g \in Handlers |-> <<>>]
    /\ idx = [g \in Handlers |-> 0]
    /\ ret = NoRet
    /\ crashed = "no"
    /\ reported = "none"

\* Handler 1 (delveContinue or delveNext) has received the stop event and
\* a sorted breakpoint list.
StopEvent ==
    /\ At(1, "idle")
    /\ pc' = [pc EXCEPT ![1] = "rec_cmp"]
    /\ UNCHANGED <<followups, buffer, output, frame>>
    /\ \E p \in Payloads : payload' = [payload EXCEPT ![1] = p]
    /\ idx' = [idx EXCEPT ![1] = 1]
    /\ reported' = "stopped"
    /\ UNCHANGED <<server, orphans, delve, breakpoints, srvBps, srvExited,
                   ret, crashed>>

\* Handler 1 runs the whole loop over its list with no other goroutine
\* running.  A panic leaves the registry as the loop had written it.
RunPass ==
    /\ At(1, "rec_cmp")
    /\ LET r == ReconcilePass(breakpoints, payload[1])
       IN  /\ breakpoints' = r.reg
           /\ IF r.panicked
              THEN /\ crashed' = "nil-breakpoint"
                   /\ UNCHANGED <<pc, followups, buffer, output, frame, idx>>
              ELSE /\ pc' = [pc EXCEPT ![1] = "rec_done"]
                   /\ UNCHANGED <<followups, buffer, output, frame>>
                   /\ idx' = [idx EXCEPT ![1] = Len(payload[1]) + 1]
                   /\ UNCHANGED crashed
    /\ UNCHANGED <<server, orphans, delve, srvBps, srvExited, payload, ret,
                   reported>>

\* After the loop: the breakpoint table is rendered and the handler
\* returns nil.
PassReturn ==
    /\ At(1, "rec_done")
    /\ Return(1, "reconcile", "nil")
    /\ UNCHANGED <<server, orphans, delve, breakpoints, srvBps, srvExited,
                   crashed, reported>>

NextReconcile ==
    \/ StopEvent
    \/ RunPass
    \/ PassReturn
    \/ Finish

SpecReconcile == InitReconcile /\ [][NextReconcile]_vars

\* ================================================================ claims

\* Positions at which a handler waits for the answer of a state-mutating
\* RPC (CreateBreakpoint, Continue, Next, Restart, Detach).
MutatingWait == {"bp_wait", "cont_wait", "next_wait", "rs_wait", "dt_wait"}

InFlight == {g \in Handlers : pc[g] \in MutatingWait}

\* C1: at most one state-mutating RPC is in flight at any time (a second
\* mutating command issued meanwhile is rejected, not sent).
C1_OneMutatingRpcInFlight == Cardinality(InFlight) <= 1

\* C2: once a continue/next response has reported the debuggee as exited,
\* a continue or next command sends no RPC, returns an error and leaves the
\* session state unchanged, until a restart has succeeded.
C2_ExitedRejectsContinueNext ==
    [][\A g \in Handlers :
          (reported = "exited" /\ (ContinueCall(g) \/ NextCall(g)))
          => (/\ pc'[g] = "idle"
              /\ ret'.val = "err"
              /\ UNCHANGED <<breakpoints, srvBps, srvExited, reported>>)]_vars

\* C3: the cumulative hit count cached for a registered breakpoint id never
\* decreases, whatever counts the server reports.
C3_HitCountNeverDecreases ==
    [][\A id \in DOMAIN breakpoints \cap DOMAIN breakpoints' :
          breakpoints'[id].TotalHitCount >= breakpoints[id].TotalHitCount]_vars

\* The elements of list bps that the loop gets to on registry reg: those
\* before the first id that is not registered.
Visited(reg, bps) ==
    {i \in 1..Len(bps) : \A k \in 1..i : bps[k].ID \in DOMAIN reg}

\* C4: in a reconciliation pass, for each server-reported breakpoint with a
\* registered id: when the cumulative counts differ, the cached cumulative
\* count and per-goroutine counts become the server's and no other field
\* changes; when they are equal, the cached descriptor stays as it was.
C4_ReconcileOverwritesHitFieldsOnly ==
    [][RunPass =>
          \A i \in Visited(breakpoints, payload[1]) :
             LET bp   == payload[1][i]
                 old  == breakpoints[bp.ID]
                 new  == breakpoints'[bp.ID]
             IN  IF old.TotalHitCount # bp.TotalHitCount
                 THEN new = [old EXCEPT !.TotalHitCount = bp.TotalHitCount,
                                        !.HitCount = bp.HitCount]
                 ELSE new = old]_vars

\* A pass has overwritten one descriptor (the counts are the server's, the
\* name is not the one the server sent) and has kept another (cumulative
\* counts equal, per-goroutine counts not those the server sent).
C4_Witness ==
    /\ pc[1] = "rec_done"
    /\ \E i, j \in 1..Len(payload[1]) :
          LET a == payload[1][i]
              b == payload[1][j]
          IN  /\ a.ID # b.ID
              /\ breakpoints[a.ID].TotalHitCount = a.TotalHitCount
              /\ breakpoints[a.ID].HitCount = a.HitCount
              /\ a.HitCount # a.TotalHitCount
              /\ breakpoints[a.ID].Name # a.Name
              /\ breakpoints[b.ID].TotalHitCount = b.TotalHitCount
              /\ breakpoints[b.ID].HitCount # b.HitCount

\* C5: reconciliation is idempotent: for every registry and every payload,
\* applying the payload twice gives the registry that applying it once
\* gives; so the registry a finished pass has left is a fixed point of that
\* payload.
C5_ReconcileIdempotent ==
    /\ pc[1] = "rec_cmp" =>
          LET once == ReconcilePass(breakpoints, payload[1])
          IN  ReconcilePass(once.reg, payload[1]) = once
    /\ pc[1] = "rec_done" =>
          ReconcilePass(breakpoints, payload[1]) =
             [reg |-> breakpoints, panicked |-> FALSE]

\* A pass is about to change the registry: one pass is not the identity,
\* and the list has an element whose cumulative count differs from the
\* cached one.
C5_Witness ==
    /\ pc[1] = "rec_cmp"
    /\ Len(payload[1]) = Cardinality(BpIds)
    /\ LET once == ReconcilePass(breakpoints, payload[1])
       IN  /\ ~once.panicked
           /\ \A i \in 1..Len(payload[1]) :
                 once.reg[payload[1][i].ID] # breakpoints[payload[1][i].ID]

\* C6: a stop event that lists a breakpoint id the registry does not hold
\* never makes the continue/next handler fail: the handler does not panic
\* on the missing entry.
C6_UnknownIdNeverAborts == crashed # "nil-breakpoint"

\* C7: whenever no handler is between its two writes, every cached
\* descriptor has its cumulative count and its per-goroutine counts from
\* one and the same server response (the modelled server always sends the
\* two equal).
C7_NoTornDescriptor ==
    (\A g \in Handlers : pc[g] # "rec_hits")
    => \A id \in DOMAIN breakpoints :
          breakpoints[id].HitCount = breakpoints[id].TotalHitCount

\* The package variable server names a debug server process that runs.
Supervised == server \in {"running", "unbound"}

C9_KillWithoutProcessReturnsError ==
    [][\A g \in Handlers :
          (server \in {"nil", "unstarted"} /\ Kill(g))
          => (ret' = [cmd |-> "kill", val |-> "err"] /\ crashed' = "no")]_vars

\* The session's client holds no connection: none was opened, or Detach
\* has closed it.  A connection whose server has ended is still held.
Released == delve.client \in {"nil", "detached"}

\* C10: when a detach or kill command finishes, the RPC connection has been
\* released and the server process the package variable names runs no more.
C10_DetachKillReleaseAll ==
    [][\A g \in Handlers :
          ((Kill(g) \/ DetachKill(g)) /\ ret'.cmd \in {"kill", "detach"})
          => (Released' /\ ~Supervised')]_vars

\* A debug session is active: the package variable delve holds a client
\* with an open connection.
SessionActive == delve.client = "open"

\* C11: a start-client command issued while a session is active returns an
\* error and leaves the client and the registry of that session unchanged.
C11_SecondSessionRejected ==
    [][\A g \in Handlers :
          (SessionActive /\ StartClientDial(g))
          => (/\ ret' = [cmd |-> "startClient", val |-> "err"]
              /\ UNCHANGED <<delve, breakpoints>>)]_vars

\* C12: a start-server command issued while the package variable server
\* names a running process is reported as an error and leaves the handle as
\* it is, so no running process is left without a handle.
C12_SecondServerRejected ==
    [][\A g \in Handlers :
          (Supervised /\ StartServerCommand(g))
          => (/\ ret' = [cmd |-> "startServer", val |-> "err"]
              /\ UNCHANGED <<server, orphans>>)]_vars

\* C13: after a Running -> Stopped transition the follow-ups are
\* independent: whatever becomes of the thread and source render, the
\* handler goes on to the breakpoint-table update.
C13_FollowUpsIndependent ==
    [][\A g \in Handlers :
          (ContinueState(g) /\ reported' = "stopped")
          => pc'[g] = "list"]_vars

\* C15: restart is accepted only after a stop or an exit has been
\* reported; in any other state the restart command is rejected: it sends
\* no RPC, returns an error and does not end the host.
C15_RestartOnlyWhenStoppedOrExited ==
    [][\A g \in Handlers :
          (reported \notin {"stopped", "exited"} /\ RestartCall(g))
          => (/\ pc'[g] = "idle"
              /\ ret' = [cmd |-> "restart", val |-> "err"]
              /\ crashed' = "no")]_vars

\* C20: a breakpoint command with invalid arguments sends no RPC, returns
\* an error without ending the host and leaves the registry, the session
\* and the server as they were; so does one that the server rejects.
C20_FailedBreakpointChangesNothing ==
    [][\A g \in Handlers :
          /\ \A a \in {"none", "nodot", "many"} :
                BreakpointArgs(g, a)
                => (/\ pc'[g] = "idle"
                    /\ ret' = [cmd |-> "breakpoint", val |-> "err"]
                    /\ crashed' = "no"
                    /\ UNCHANGED <<breakpoints, delve, srvBps, reported>>)
          /\ (BreakpointStore(g) /\ ret'.val = "err")
                => (/\ crashed' = "no"
                    /\ UNCHANGED <<breakpoints, delve, srvBps, reported>>)
      ]_vars

\* Handler g takes a step that works on an answer of the server.
OnResponse(g) ==
    \/ StartClientPid(g) \/ StartClientSeed(g)
    \/ BreakpointStore(g) \/ CommandDone(g)
    \/ ContinueState(g) \/ NextState(g)
    \/ ListBreakpoints(g)
    \/ ReconcileCompare(g) \/ ReconcileTotal(g) \/ ReconcileHits(g)
    \/ RestartDone(g) \/ DetachDone(g)

\* C17: whatever the server answers, the step of a handler that works on
\* the answer does not end the host process.
C17_NoResponseCrashesHost ==
    [][\A g \in Handlers : OnResponse(g) => crashed' = "no"]_vars

\* C19: a session set-up whose first RPC got no answer (the recorded
\* process id is 0) ends with an error and leaves no session behind.
C19_UnreachableLeavesIdle ==
    [][\A g \in Handlers :
          (StartClientSeed(g) /\ delve.procPid = 0)
          => (/\ ret' = [cmd |-> "startClient", val |-> "err"]
              /\ delve' = NoDelve
              /\ breakpoints' = EmptyMap)]_vars

\* --------------------------------------------- the sort of a stop listing
\* Largest id the server has given to a breakpoint of the listing.
MaxListed == 4
ListedIds == {PanicBpId} \cup (1..MaxListed)

\* An ordering that puts the larger id first (a variant that C16 must tell
\* from Less).
LessDescending(a, i, j) == a[i].ID > a[j].ID

\* func (a ByID) Less(i, j int) bool { return a[i].ID < a[j].ID }
Less(a, i, j) == a[i].ID < a[j].ID

\* func (a ByID) Swap(i, j int) { a[i], a[j] = a[j], a[i] }
Swap(a, i, j) == [a EXCEPT ![i] = a[j], ![j] = a[i]]

\* The inner loop of the insertion sort that sort.Sort runs on a short
\* slice: for j := i; j > lo && Less(j, j-1); j-- { Swap(j, j-1) }.
RECURSIVE InsertDown(_, _)
InsertDown(a, j) ==
    IF j > 1 /\ Less(a, j, j - 1)
    THEN InsertDown(Swap(a, j, j - 1), j - 1)
    ELSE a

\* Its outer loop, from element i on.
RECURSIVE InsertionSort(_, _)
InsertionSort(a, i) ==
    IF i > Len(a) THEN a ELSE InsertionSort(InsertDown(a, i), i + 1)

\* sort.Sort(ByID(breakpoint)) on the slice as the server returned it.
SortListing(a) == InsertionSort(a, 2)

\* The answers of ListBreakpoints: the descriptors of any set of listed
\* ids, each hit once, in any order (the server ranges over a map).
RawListings ==
    {[i \in DOMAIN s |-> Bp(s[i], SrvName(s[i]), 1, 1)] :
        s \in {q \in UNION {[1..n -> ListedIds] :
                               n \in 0..Cardinality(ListedIds)} :
                  \A i, j \in DOMAIN q : i # j => q[i] # q[j]}}

\* Handler 1 (delveContinue or delveNext) holds the answer of
\* ListBreakpoints; the registry caches every listed id.
InitSort ==
    /\ server = "running"
    /\ orphans = 0
    /\ delve = [client |-> "open", procPid |-> SrvPid]
    /\ breakpoints = [id \in ListedIds |-> Bp(id, SrvName(id), 0, 0)]
    /\ srvBps = FreshBps
    /\ srvExited = FALSE
    /\ pc = [g \in Handlers |-> IF g = 1 THEN "sort" ELSE "idle"]
    /\ followups = {}
    /\ buffer = FALSE
    /\ output = NoOutput
    /\ frame = NoFrame
    /\ payload \in {[g \in Handlers |-> IF g = 1 THEN l ELSE <<>>] :
                       l \in RawListings}
    /\ idx = [g \in Handlers |-> 0]
    /\ ret = NoRet
    /\ crashed = "no"
    /\ reported = "stopped"

\* sort.Sort(ByID(breakpoint)) sorts the slice in place; the loop over it
\* comes next.
SortBreakpoints ==
    /\ At(1, "sort")
    /\ payload' = [payload EXCEPT ![1] = SortListing(@)]
    /\ idx' = [idx EXCEPT ![1] = 1]
    /\ pc' = [pc EXCEPT ![1] = "rec_cmp"]
    /\ UNCHANGED <<followups, buffer, output, frame>>
    /\ UNCHANGED <<server, orphans, delve, breakpoints, srvBps, srvExited,
                   ret, crashed, reported>>

NextSort ==
    \/ SortBreakpoints
    \/ RunPass
    \/ PassReturn
    \/ Finish

SpecSort == InitSort /\ [][NextSort]_vars

\* The ids of a listing grow strictly from each entry to the next.
Ascending(a) == \A i \in 1..(Len(a) - 1) : a[i].ID < a[i + 1].ID

\* C16: the listing that a continue or next reconciles and renders is
\* sorted strictly ascending by id, in whatever order the server sent it.
C16_ListingSortedAscending ==
    pc[1] \in {"rec_cmp", "rec_done"} => Ascending(payload[1])

\* A listing of every listed id has been sorted, reconciled and is about
\* to be rendered.
C16_Witness ==
    /\ pc[1] = "rec_done"
    /\ Len(payload[1]) = Cardinality(ListedIds)
    /\ Ascending(payload[1])

\* ----------------------------- package delve: continue, next, follow-ups
\* The goroutines that Delve.cont and Delve.next start once the debuggee
\* has stopped: ListGoroutines with printContext, pcSign.Place, and
\* SetWindowCursor with "normal zz".
FollowUpKinds == {"goroutines", "sign", "cursor"}

\* A session of the Delve struct: server started, client connected.
InitCont ==
    /\ server = "running"
    /\ orphans = 0
    /\ delve = [client |-> "open", procPid |-> SrvPid]
    /\ breakpoints = EmptyMap
    /\ srvBps = FreshBps
    /\ srvExited = FALSE
    /\ pc = [g \in Handlers |-> "idle"]
    /\ followups = {}
    /\ buffer = FALSE
    /\ output = NoOutput
    /\ frame = NoFrame
    /\ payload = [g \in Handlers |-> <<>>]
    /\ idx = [g \in Handlers |-> 0]
    /\ ret = NoRet
    /\ crashed = "no"
    /\ reported = "none"

\* Slot g stands for one command and the goroutines it starts; it is free
\* when all of them have ended.
SlotFree(g) ==
    /\ At(g, "idle")
    /\ \A k \in FollowUpKinds : <<g, k>> \notin followups

\* cmdContinue: go d.cont(v, eval); its first statement sends Continue.
cmdContinue(g) ==
    /\ SlotFree(g)
    /\ Goto(g, "cont_wait")
    /\ UNCHANGED <<server, orphans, delve, breakpoints, srvBps, srvExited,
                   payload, idx, crashed, reported>>

\* cmdNext: go d.next(v, eval); its first statement sends Next.
cmdNext(g) ==
    /\ SlotFree(g)
    /\ Goto(g, "next_wait")
    /\ UNCHANGED <<server, orphans, delve, breakpoints, srvBps, srvExited,
                   payload, idx, crashed, reported>>

\* The state has arrived.  An exited debuggee (cont) or an error (next)
\* is reported and returned; after a stop the handler starts its three
\* goroutines and goes on to build the terminal message.
Stopped(g) ==
    /\ At(g, "cont_wait") \/ At(g, "next_wait")
    /\ \/ /\ srvExited' = TRUE
          /\ reported' = "exited"
          /\ Return(g, IF pc[g] = "cont_wait" THEN "continue" ELSE "next",
                    "err")
       \/ /\ ~srvExited
          /\ reported' = "stopped"
          /\ pc' = [pc EXCEPT ![g] = IF @ = "cont_wait" THEN "cont_print"
                                                        ELSE "next_print"]
          /\ followups' = followups \cup {<<g, k>> : k \in FollowUpKinds}
          /\ UNCHANGED <<srvExited, buffer, output, frame, payload, idx, ret>>
    /\ UNCHANGED <<server, orphans, delve, breakpoints, srvBps, crashed>>

\* return d.printTerminal(...): the handler goroutine ends, with or
\* without an error; nothing waits for the goroutines it has started.
PrintTerminalReturn(g) ==
    /\ At(g, "cont_print") \/ At(g, "next_print")
    /\ \E v \in {"nil", "err"} :
          Return(g, IF pc[g] = "cont_print" THEN "continue" ELSE "next", v)
    /\ UNCHANGED <<server, orphans, delve, breakpoints, srvBps, srvExited,
                   crashed, reported>>

\* One of the started goroutines ends.
FollowUpDone(t) ==
    /\ Live
    /\ t \in followups
    /\ followups' = followups \ {t}
    /\ UNCHANGED <<server, orphans, delve, breakpoints, srvBps, srvExited,
                   pc, buffer, output, frame, payload, idx, ret, crashed, reported>>

NextCont ==
    \/ \E g \in Handlers :
          \/ cmdContinue(g)
          \/ cmdNext(g)
          \/ Stopped(g)
          \/ PrintTerminalReturn(g)
    \/ \E t \in Handlers \X FollowUpKinds : FollowUpDone(t)
    \/ Finish

SpecCont == InitCont /\ [][NextCont]_vars

\* C14: continue and next send their RPC only when no goroutine started
\* after an earlier stop is still running.
C14_MutatingRpcWaitsForFollowUps ==
    [][\A g \in Handlers : (cmdContinue(g) \/ cmdNext(g)) => followups = {}]_vars

\* ------------------------------------------- package delve: debug command
\* Delve.startServer, by its contract: it launches the debug server on the
\* listen address, or fails with SpawnFailed and launches nothing.  A
\* second server cannot take an address that one holds already.
startServer(ok) ==
    IF ok
    THEN ~SrvUp /\ server' = "running"
    ELSE UNCHANGED server

\* Delve.createDebugBuffer, by its contract: the debug buffers exist.
createDebugBuffer == buffer' = TRUE

\* Delve.waitServer, by its contract: once the server answers, the client
\* is set up (setupDelve); a server that never answers leaves no client.
waitServer ==
    IF SrvUp
    THEN delve' = [client |-> "open", procPid |-> SrvPid]
    ELSE UNCHANGED delve

\* cmdDebug: go d.debug(v, eval), up to the call of startServer.
cmdDebug(g) ==
    /\ SlotFree(g)
    /\ Goto(g, "dbg_start")
    /\ UNCHANGED <<server, orphans, delve, breakpoints, srvBps, srvExited,
                   payload, idx, crashed, reported>>

\* if err := d.startServer(...); err != nil { nvimutil.ErrorWrap(v, err) }
\* The error is reported; the function goes on to its next statement.
debugStartServer(g, ok) ==
    /\ At(g, "dbg_start")
    /\ startServer(ok)
    /\ Goto(g, "dbg_buffer")
    /\ UNCHANGED <<orphans, delve, breakpoints, srvBps, srvExited, payload,
                   idx, crashed, reported>>

\* defer d.waitServer(v, defaultAddr); the operand of the return statement,
\* d.createDebugBuffer(), is evaluated.
debugCreateBuffer(g) ==
    /\ At(g, "dbg_buffer")
    /\ createDebugBuffer
    /\ pc' = [pc EXCEPT ![g] = "dbg_wait"]
    /\ UNCHANGED <<server, orphans, delve, breakpoints, srvBps, srvExited,
                   followups, output, frame, payload, idx, ret, crashed, reported>>

\* The deferred waitServer runs, then debug returns what
\* createDebugBuffer gave.
debugWaitServer(g) ==
    /\ At(g, "dbg_wait")
    /\ waitServer
    /\ \E v \in {"nil", "err"} :
          /\ pc' = [pc EXCEPT ![g] = "idle"]
          /\ ret' = [cmd |-> "debug", val |-> v]
    /\ UNCHANGED <<server, orphans, breakpoints, srvBps, srvExited,
                   followups, buffer, output, frame, payload, idx, crashed, reported>>

NextDebug ==
    \/ \E g \in Handlers :
          \/ cmdDebug(g)
          \/ \E ok \in BOOLEAN : debugStartServer(g, ok)
          \/ debugCreateBuffer(g)
          \/ debugWaitServer(g)
    \/ ProcExit
    \/ Finish

SpecDebug == Init /\ [][NextDebug]_vars

\* C18: a debug command whose server could not be launched ends there with
\* an error: no debug buffer is created and no client is set up.
C18_SpawnFailedStopsStart ==
    [][\A g \in Handlers :
          debugStartServer(g, FALSE)
          => (/\ pc'[g] = "idle"
              /\ ret' = [cmd |-> "debug", val |-> "err"]
              /\ UNCHANGED <<buffer, delve>>)]_vars

\* Handler g is about to end a detach that was issued in Stopped and whose
\* Detach(true) the server has answered.
DetachedFromStopped(g) ==
    /\ pc[g] = "dt_kill_nil"
    /\ delve.client = "detached"
    /\ reported = "stopped"

\* C21: a detach issued in Stopped ends with the session detached and no
\* debug server process running, and a kill command after it returns an
\* error without ending the host.
C21_DetachThenKillReportsNotRunning ==
    [][\A g \in {1} :
          /\ (DetachedFromStopped(g) /\ DetachKill(g))
                => (/\ crashed' = "no"
                    /\ ret' = [cmd |-> "detach", val |-> "nil"]
                    /\ delve'.client = "detached"
                    /\ ~SrvUp')
          /\ (delve.client = "detached" /\ server \in {"killed", "exited"}
                 /\ Kill(g))
                => (/\ crashed' = "no"
                    /\ ret' = [cmd |-> "kill", val |-> "err"]
                    /\ UNCHANGED server)]_vars

\* A continue or next has stopped, run its loop and returned nil, and the
\* server holds the default breakpoint and one user breakpoint (main.main)
\* that has been hit once.
StoppedAtMainMainOnce ==
    /\ ret = [cmd |-> "reconcile", val |-> "nil"]
    /\ DOMAIN srvBps = {PanicBpId, 1}
    /\ srvBps[1] = 1

C23_RegistryOnlyGrows ==
    [][crashed' = "no"
       => \A id \in DOMAIN breakpoints :
             /\ id \in DOMAIN breakpoints'
             /\ breakpoints'[id] # breakpoints[id]
                   => \E g \in Handlers : ReconcileTotal(g) \/ ReconcileHits(g)]_vars

\* Positions at which a handler waits for the answer of an RPC.
RpcWait ==
    MutatingWait \cup {"sc_pid", "sc_seed", "cmd_wait", "list"}

\* C24: while a handler waits for the answer of an RPC, the goroutine on
\* which the host delivers commands is free: the handler function the
\* host called has returned.
C24_HostNeverWaitsForRpc ==
    \A g \in Handlers : pc[g] \in RpcWait => ~DirectBusy

\* ------------------------------------------- parseThread and the streams
\* Most bytes of server output the model follows per stream.
MaxOut == 2
Streams == {"stdout", "stderr"}

\* server.Stdout = &stdout; server.Stderr = &stderr: what a debug server
\* process writes is appended to the buffer of the stream.
ServerWrites ==
    /\ crashed = "no"
    /\ server \in {"running", "unbound"} \/ orphans > 0
    /\ \E st \in Streams :
          /\ output[st] < MaxOut
          /\ output' = [output EXCEPT ![st] = @ + 1]
    /\ UNCHANGED <<server, orphans, delve, breakpoints, srvBps, srvExited,
                   pc, followups, buffer, frame, payload, idx, ret, crashed,
                   reported>>

\* A continue or next has received a state of the stopped debuggee and
\* calls parseThread(v, state.CurrentThread).
ThreadState(g) ==
    /\ CanStart(g)
    /\ Usable
    /\ reported' = "stopped"
    /\ Goto(g, "thread")
    /\ UNCHANGED <<server, orphans, delve, breakpoints, srvBps, srvExited,
                   payload, idx, crashed>>

\* parseThread: nothing for a nil thread; else the thread is rendered (any
\* of the editor calls may fail and the error is returned), and when
\* stdout is not empty it is printed to the locals buffer and, that done,
\* emptied by the deferred stdout.Reset().
parseThread(g) ==
    /\ At(g, "thread")
    /\ \/ /\ \E v \in {"nil", "err"} : Return(g, "parseThread", v)
       \/ /\ output.stdout # 0
          /\ output' = [output EXCEPT !.stdout = 0]
          /\ pc' = [pc EXCEPT ![g] = "idle"]
          /\ ret' = [cmd |-> "parseThread", val |-> "nil"]
          /\ UNCHANGED <<followups, buffer, frame, payload, idx>>
    /\ UNCHANGED <<server, orphans, delve, breakpoints, srvBps, srvExited,
                   crashed, reported>>

NextOutput ==
    \/ ServerWrites
    \/ \E g \in Handlers : ThreadState(g)
    \/ \E g \in Handlers : parseThread(g)
    \/ ProcExit
    \/ Finish

SpecOutput == InitCont /\ [][NextOutput]_vars

\* C25: neither stream buffer ever gets shorter.
C25_StreamsAppendOnly ==
    [][\A st \in Streams : output'[st] >= output[st]]_vars

\* C26: a detach whose Detach(true) was answered ends with an empty
\* registry and no client, and once the client is detached a continue,
\* next, restart or breakpoint command returns an error at once, without
\* sending an RPC.
C26_DetachReleasesAndAbsorbs ==
    [][\A g \in {1} :
          /\ (DetachKill(g) /\ ret' = [cmd |-> "detach", val |-> "nil"]
                 /\ delve.client = "detached")
                => (breakpoints' = EmptyMap /\ delve' = NoDelve)
          /\ (delve.client = "detached"
                 /\ (ContinueCall(g) \/ NextCall(g) \/ RestartCall(g)
                        \/ BreakpointArgs(g, "func")))
                => (pc'[g] = "idle" /\ ret'.val = "err")]_vars

\* Handler g gets the failure of an RPC sent on a broken connection and
\* returns.
FailsOnBroken(g) ==
    /\ delve.client = "broken"
    /\ \/ NextState(g) \/ RestartDone(g) \/ BreakpointStore(g)
       \/ CommandDone(g) \/ ListBreakpoints(g)

\* C27: the failure of an RPC on a broken connection is returned as an
\* error and ends the session: the package variable keeps no client that
\* a later command would use.
C27_BrokenConnectionEndsSession ==
    [][\A g \in {1} :
          FailsOnBroken(g) => (ret'.val = "err" /\ delve' = NoDelve)]_vars

\* ------------------------------------- delveBreakpoint: the derived name
\* Function symbols are strings over two letters and the dot, of at most
\* MaxSym characters.
MaxSym == 5
Letters == {"m", "n"}
Dot == "."
Symbols == UNION {[1..n -> Letters \cup {Dot}] : n \in 0..MaxSym}

\* strings.Contains(s, ".")
HasDot(s) == \E i \in DOMAIN s : s[i] = Dot

\* strings.Split(s, "."): the pieces between the dots; one piece, s
\* itself, when there is no dot.
RECURSIVE Split(_)
Split(s) ==
    IF ~HasDot(s) THEN <<s>>
    ELSE LET i == CHOOSE k \in DOMAIN s :
                     s[k] = Dot /\ \A j \in 1..(k - 1) : s[j] # Dot
         IN  <<SubSeq(s, 1, i - 1)>> \o Split(SubSeq(s, i + 1, Len(s)))

\* strings.ToUpper on one character.
ToUpper(c) == IF c = "m" THEN "M" ELSE IF c = "n" THEN "N" ELSE c

\* fmt.Sprintf("%s%s", strings.ToUpper(x[:1]), x[1:]) for a non-empty x.
UpperFirst(x) == <<ToUpper(x[1])>> \o Tail(x)

\* strings.Join(parts, "")
RECURSIVE Join(_)
Join(parts) ==
    IF parts = <<>> THEN <<>> ELSE Head(parts) \o Join(Tail(parts))

\* case 1 of delveBreakpoint (and of Delve.parseArgs): bpslice[1] is
\* upper-cased at its first character and the pieces are joined.  Indexing
\* bpslice[1] panics when there is one piece only, and bpslice[1][:1]
\* panics when the second piece is empty.
bpName(sym) ==
    LET bpslice == Split(sym)
    IN  IF Len(bpslice) < 2 \/ bpslice[2] = <<>> THEN "panic"
        ELSE Join([bpslice EXCEPT ![2] = UpperFirst(@)])

\* The session of InitCont; DlvBreakpoint has been called with one
\* argument, any symbol.
InitName ==
    /\ server = "running"
    /\ orphans = 0
    /\ delve = [client |-> "open", procPid |-> SrvPid]
    /\ srvBps = FreshBps
    /\ breakpoints = [id \in {PanicBpId} |-> SrvBp(PanicBpId)]
    /\ srvExited = FALSE
    /\ pc = [g \in Handlers |-> IF g = 1 THEN "bp_args" ELSE "idle"]
    /\ followups = {}
    /\ buffer = FALSE
    /\ output = NoOutput
    /\ frame \in {[arg |-> sym, bpName |-> <<>>] : sym \in Symbols}
    /\ payload = [g \in Handlers |-> <<>>]
    /\ idx = [g \in Handlers |-> 0]
    /\ ret = NoRet
    /\ crashed = "no"
    /\ reported = "none"

\* switch len(args) { case 1: ... }, then CreateBreakpoint is sent under
\* the derived name.
BreakpointName(g) ==
    /\ At(g, "bp_args")
    /\ IF bpName(frame.arg) = "panic"
       THEN Crash("index")
       ELSE /\ frame' = [frame EXCEPT !.bpName = bpName(frame.arg)]
            /\ pc' = [pc EXCEPT ![g] = "bp_wait"]
            /\ UNCHANGED <<server, delve, breakpoints, followups, buffer,
                           output, payload, idx, ret, crashed, reported>>
    /\ UNCHANGED <<orphans, srvBps, srvExited>>

NextName ==
    \/ BreakpointName(1)
    \/ BreakpointStore(1)
    \/ Finish

SpecName == InitName /\ [][NextName]_vars

\* C28: for a symbol with a dot the derived name is the one the rule
\* gives (the dots removed, the first letter after each dot upper-cased); a
\* symbol without a dot is answered with an error and the host lives.
C28_DerivedNameFollowsRule ==
    [][BreakpointName(1)
       => /\ crashed' = "no"
          /\ IF HasDot(frame.arg)
             THEN LET parts == Split(frame.arg)
                  IN  frame'.bpName =
                         Join([i \in DOMAIN parts |->
                                  IF i > 1 /\ parts[i] # <<>>
                                  THEN UpperFirst(parts[i]) ELSE parts[i]])
             ELSE ret' = [cmd |-> "breakpoint", val |-> "err"]]_vars

\* ------------------------------------- package delve: the server address
\* Address arguments are strings over a digit, a letter and the colon, of
\* 1 to MaxAddr characters.
MaxAddr == 4
Colon == ":"
AddrArgs == UNION {[1..n -> {"4", "h", Colon}] : n \in 1..MaxAddr}

Localhost == <<"l", "o", "c", "a", "l", "h", "o", "s", "t">>

\* const defaultAddr = "localhost:41222"
defaultAddr == Localhost \o <<Colon>> \o <<"4", "1", "2", "2", "2">>

\* strings.Contains(s, c) for a one-character c.
Contains(s, c) == \E i \in DOMAIN s : s[i] = c

\* A normalisation that would put the host before every argument (a
\* variant that C29 must tell from the test of the source).
NormaliseAlways(addr) == Localhost \o <<Colon>> \o addr

\* if !strings.Contains(addr, ":") { addr = "localhost:" + addr }
Normalise(addr) ==
    IF ~Contains(addr, Colon) THEN Localhost \o <<Colon>> \o addr ELSE addr

\* Delve.startServer, by its contract: the server is bound to the listen
\* address it is given.
listenAddress(addr) == addr

\* Delve.waitServer, by its contract: the client is set up, by setupDelve,
\* for the address it is given.
waitAddress(addr) == addr

\* DlvDebug has been called, or DlvConnect with an address argument.
InitAddr ==
    /\ server = "nil"
    /\ orphans = 0
    /\ delve = NoDelve
    /\ breakpoints = EmptyMap
    /\ srvBps = FreshBps
    /\ srvExited = FALSE
    /\ pc = [g \in Handlers |-> IF g = 1 THEN "addr_args" ELSE "idle"]
    /\ followups = {}
    /\ buffer = FALSE
    /\ output = NoOutput
    /\ frame \in {[cmd |-> "debug", arg |-> <<>>, addr |-> <<>>,
                   listen |-> <<>>, dial |-> <<>>]}
                 \cup {[cmd |-> "connect", arg |-> a, addr |-> <<>>,
                        listen |-> <<>>, dial |-> <<>>] : a \in AddrArgs}
    /\ payload = [g \in Handlers |-> <<>>]
    /\ idx = [g \in Handlers |-> 0]
    /\ ret = NoRet
    /\ crashed = "no"
    /\ reported = "none"

\* Delve.connect: addr := args[0], normalised; Delve.debug uses
\* defaultAddr as it is.
addrArgs(g) ==
    /\ At(g, "addr_args")
    /\ frame' = [frame EXCEPT !.addr = IF frame.cmd = "debug"
                                       THEN defaultAddr
                                       ELSE Normalise(frame.arg)]
    /\ pc' = [pc EXCEPT ![g] = "addr_start"]
    /\ UNCHANGED <<server, orphans, delve, breakpoints, srvBps, srvExited,
                   followups, buffer, output, payload, idx, ret, crashed,
                   reported>>

\* d.startServer(..., addr): the error is reported and the function goes
\* on (see debugStartServer).
addrStartServer(g, ok) ==
    /\ At(g, "addr_start")
    /\ startServer(ok)
    /\ frame' = [frame EXCEPT !.listen = IF ok THEN listenAddress(frame.addr)
                                             ELSE @]
    /\ pc' = [pc EXCEPT ![g] = "addr_wait"]
    /\ UNCHANGED <<orphans, delve, breakpoints, srvBps, srvExited,
                   followups, buffer, output, payload, idx, ret, crashed,
                   reported>>

\* The deferred d.waitServer(v, addr) and setupDelve(v, addr), which
\* normalises its argument again before delverpc2.NewClient(addr); then
\* the handler returns.
addrWaitServer(g) ==
    /\ At(g, "addr_wait")
    /\ waitServer
    /\ frame' = [frame EXCEPT !.dial = IF SrvUp
                                       THEN Normalise(waitAddress(frame.addr))
                                       ELSE @]
    /\ createDebugBuffer
    /\ \E v \in {"nil", "err"} :
          /\ pc' = [pc EXCEPT ![g] = "idle"]
          /\ ret' = [cmd |-> frame.cmd, val |-> v]
    /\ UNCHANGED <<server, orphans, breakpoints, srvBps, srvExited,
                   followups, output, payload, idx, crashed, reported>>

NextAddr ==
    \/ addrArgs(1)
    \/ \E ok \in BOOLEAN : addrStartServer(1, ok)
    \/ addrWaitServer(1)
    \/ Finish

SpecAddr == InitAddr /\ [][NextAddr]_vars

MaxPid == 4
Packages == {"commands", "delve"}

\* state.ExitStatus of a debuggee that has run to its end.
ExitStatuses == {0, 1, 2}

\* A session of package pkg on a debuggee with process id SrvPid.  The
\* frame holds the server's side, pid (what ProcessPid() answers), and
\* the last exit message: named, the process id in it (0: none yet), and
\* status.
InitRestart ==
    /\ server = "running"
    /\ orphans = 0
    /\ delve = [client |-> "open", procPid |-> SrvPid]
    /\ srvBps = FreshBps
    /\ breakpoints = [id \in {PanicBpId} |-> SrvBp(PanicBpId)]
    /\ srvExited = FALSE
    /\ pc = [g \in Handlers |-> "idle"]
    /\ followups = {}
    /\ buffer = FALSE
    /\ output = NoOutput
    /\ frame \in {[pkg |-> p, pid |-> SrvPid, named |-> 0, status |-> 0] :
                    p \in Packages}
    /\ payload = [g \in Handlers |-> <<>>]
    /\ idx = [g \in Handlers |-> 0]
    /\ ret = NoRet
    /\ crashed = "no"
    /\ reported = "none"

\* What client.Restart() does on the server when it succeeds: a new
\* process, none of its breakpoints hit.
ServerRestarts ==
    /\ frame.pid < MaxPid
    /\ frame' = [frame EXCEPT !.pid = @ + 1]
    /\ srvBps' = [id \in DOMAIN srvBps |-> 0]
    /\ srvExited' = FALSE

\* delveRestart: err := delve.client.Restart(); the error or nil is
\* returned.
delveRestart(g, ok) ==
    /\ frame.pkg = "commands"
    /\ At(g, "idle")
    /\ IF ok
       THEN /\ ServerRestarts
            /\ reported' = "none"
            /\ ret' = [cmd |-> "restart", val |-> "nil"]
       ELSE /\ ret' = [cmd |-> "restart", val |-> "err"]
            /\ UNCHANGED <<frame, srvBps, srvExited, reported>>
    /\ UNCHANGED <<server, orphans, delve, breakpoints, pc, followups,
                   buffer, output, payload, idx, crashed>>

\* Delve.restart: after a successful Restart,
\* d.processPid = d.client.ProcessPid() and the terminal line.
restart(g, ok) ==
    /\ frame.pkg = "delve"
    /\ At(g, "idle")
    /\ IF ok
       THEN /\ ServerRestarts
            /\ delve' = [delve EXCEPT !.procPid = frame'.pid]
            /\ reported' = "none"
            /\ ret' = [cmd |-> "restart", val |-> "nil"]
       ELSE /\ ret' = [cmd |-> "restart", val |-> "err"]
            /\ UNCHANGED <<frame, delve, srvBps, srvExited, reported>>
    /\ UNCHANGED <<server, orphans, breakpoints, pc, followups, buffer,
                   output, payload, idx, crashed>>

\* delveContinue / delveNext on a debuggee that runs to its end:
\* state.Exited, and "Process %d has exited with status %d" is echoed
\* with delve.procPid.
exitMessage(g) ==
    /\ frame.pkg = "commands"
    /\ At(g, "idle")
    /\ ~srvExited
    /\ srvExited' = TRUE
    /\ reported' = "exited"
    /\ \E st \in ExitStatuses :
          frame' = [frame EXCEPT !.named = delve.procPid, !.status = st]
    /\ \E c \in {"continue", "next"} : ret' = [cmd |-> c, val |-> "nil"]
    /\ UNCHANGED <<server, orphans, delve, breakpoints, srvBps, pc,
                   followups, buffer, output, payload, idx, crashed>>

\* Delve.cont / Delve.next on a debuggee that runs to its end: the error
\* is reported, no process id is named.
exitError(g) ==
    /\ frame.pkg = "delve"
    /\ At(g, "idle")
    /\ ~srvExited
    /\ srvExited' = TRUE
    /\ reported' = "exited"
    /\ \E c \in {"continue", "next"} : ret' = [cmd |-> c, val |-> "err"]
    /\ UNCHANGED <<server, orphans, delve, breakpoints, srvBps, pc,
                   followups, buffer, output, frame, payload, idx, crashed>>

NextRestart ==
    \/ \E ok \in BOOLEAN : delveRestart(1, ok)
    \/ \E ok \in BOOLEAN : restart(1, ok)
    \/ exitMessage(1)
    \/ exitError(1)
    \/ Finish

SpecRestart == InitRestart /\ [][NextRestart]_vars

\* C30: a successful restart leaves the recorded process id equal to the
\* one the server reports for the new process, a failed restart leaves it
\* as it was, and an exit message names the process that has exited.
C30_RecordedPidFollowsRestart ==
    [][/\ (delveRestart(1, TRUE) \/ restart(1, TRUE))
             => delve'.procPid = frame'.pid
       /\ (delveRestart(1, FALSE) \/ restart(1, FALSE))
             => delve'.procPid = delve.procPid
       /\ exitMessage(1) => frame'.named = frame.pid]_vars

sessionVars == <<server, orphans, delve, breakpoints, srvBps, srvExited, pc,
                 followups, buffer, output, payload, idx, ret, reported>>

NoSession ==
    /\ server = "nil"
    /\ orphans = 0
    /\ delve = NoDelve
    /\ breakpoints = EmptyMap
    /\ srvBps = FreshBps
    /\ srvExited = FALSE
    /\ pc = [g \in Handlers |-> "idle"]
    /\ followups = {}
    /\ buffer = FALSE
    /\ output = NoOutput
    /\ payload = [g \in Handlers |-> <<>>]
    /\ idx = [g \in Handlers |-> 0]
    /\ ret = NoRet
    /\ reported = "none"

\* ------------------------------------------- package autocmd: bufWritePre
\* runtime.NumCPU() is 1..MaxCPU; the handler is followed for MaxWrites
\* buffer writes.
MaxCPU == 2
MaxWrites == 2

\* A channel without a buffer (a variant that C32 must tell from the
\* make of the source).
UnbufferedChan(ncpu) == 0

\* make(chan error, runtime.NumCPU()): the capacity of the channel.
bufWritePreChan(ncpu) == ncpu

\* config.IferrAutosave and config.FmtAutosave are set; no handler runs.
\* at is the position of the handler, iferr and fmt the state of the two
\* tasks of the current call, res what Fmt has returned, chan the results
\* in a.bufWritePreChan, wg the counter of a.wg.
InitAutocmd ==
    /\ NoSession
    /\ crashed = "no"
    /\ frame \in {[IferrAutosave |-> i, FmtAutosave |-> f, ncpu |-> n,
                   at |-> "idle", iferr |-> "none", fmt |-> "none",
                   res |-> "none", cap |-> 0, chan |-> <<>>, wg |-> 0,
                   writes |-> 0] :
                  i \in BOOLEAN, f \in BOOLEAN, n \in 1..MaxCPU}

\* BufWritePre: a.bufWritePreChan = make(chan error, runtime.NumCPU()).
bufWritePre ==
    /\ frame.at = "idle"
    /\ frame.writes < MaxWrites
    /\ frame' = [frame EXCEPT !.at = "iferr", !.iferr = "none",
                              !.fmt = "none", !.res = "none",
                              !.chan = <<>>,
                              !.cap = bufWritePreChan(frame.ncpu),
                              !.writes = @ + 1]
    /\ UNCHANGED <<sessionVars, crashed>>

\* if config.IferrAutosave { err := a.c.Iferr(eval.File) ...: the call.
IferrCall ==
    /\ frame.at = "iferr"
    /\ frame' = IF frame.IferrAutosave
                THEN [frame EXCEPT !.at = "iferr_wait", !.iferr = "running"]
                ELSE [frame EXCEPT !.at = "fmt"]
    /\ UNCHANGED <<sessionVars, crashed>>

\* Iferr has returned: if err != nil { return }.
IferrReturn(ok) ==
    /\ frame.at = "iferr_wait"
    /\ frame' = IF ok
                THEN [frame EXCEPT !.at = "fmt", !.iferr = "ok"]
                ELSE [frame EXCEPT !.at = "idle", !.iferr = "err"]
    /\ UNCHANGED <<sessionVars, crashed>>

\* if config.FmtAutosave { a.wg.Add(1); go func() {...}() }
FmtStart ==
    /\ frame.at = "fmt"
    /\ frame' = IF frame.FmtAutosave
                THEN [frame EXCEPT !.at = "wait", !.fmt = "running",
                                   !.wg = @ + 1]
                ELSE [frame EXCEPT !.at = "wait"]
    /\ UNCHANGED <<sessionVars, crashed>>

\* The goroutine: a.c.Fmt(dir) has returned its result.
FmtReturn(r) ==
    /\ frame.fmt = "running"
    /\ frame' = [frame EXCEPT !.fmt = "sending", !.res = r]
    /\ UNCHANGED <<sessionVars, crashed>>

\* The goroutine: a.bufWritePreChan <- result, which waits while the
\* channel is full.
FmtSend ==
    /\ frame.fmt = "sending"
    /\ Len(frame.chan) < frame.cap
    /\ frame' = [frame EXCEPT !.fmt = "sent",
                              !.chan = Append(@, frame.res)]
    /\ UNCHANGED <<sessionVars, crashed>>

\* The goroutine: the deferred a.wg.Done().
FmtDone ==
    /\ frame.fmt = "sent"
    /\ frame' = [frame EXCEPT !.fmt = "done", !.wg = @ - 1]
    /\ UNCHANGED <<sessionVars, crashed>>

\* a.wg.Wait() and the return of the handler.
WaitReturn ==
    /\ frame.at = "wait"
    /\ frame.wg = 0
    /\ frame' = [frame EXCEPT !.at = "idle"]
    /\ UNCHANGED <<sessionVars, crashed>>

NextAutocmd ==
    \/ bufWritePre
    \/ IferrCall
    \/ \E ok \in BOOLEAN : IferrReturn(ok)
    \/ FmtStart
    \/ \E r \in {"nil", "err"} : FmtReturn(r)
    \/ FmtSend
    \/ FmtDone
    \/ WaitReturn

SpecAutocmd == InitAutocmd /\ [][NextAutocmd]_vars

\* C32: Fmt is started only when Iferr is not running and has not failed;
\* the send of the Fmt result finds room in the channel; and when the
\* handler has returned the Fmt task, if it was started, has ended with
\* its result in the channel.
C32_IferrThenFmtThenReturn ==
    /\ frame.fmt # "none" => frame.iferr \in {"none", "ok"}
    /\ frame.iferr = "running" => frame.fmt = "none"
    /\ frame.iferr = "err" => frame.fmt = "none" /\ frame.at = "idle"
    /\ frame.fmt = "sending" => Len(frame.chan) < frame.cap
    /\ (frame.at = "idle" /\ frame.fmt # "none")
          => frame.fmt = "done" /\ frame.chan = <<frame.res>> /\ frame.wg = 0

\* The handler has returned after an Iferr without error and a Fmt whose
\* result is in the channel.
C32_Witness ==
    /\ frame.at = "idle"
    /\ frame.iferr = "ok"
    /\ frame.fmt = "done"
    /\ frame.chan = <<"err">>

\* ------------------------------------------------ package pathutil: Chdir
\* The editor starts in directory "cwd0"; the callers ask for one of Dirs.
Dirs == {"a", "b"}
NoCall == [at |-> "idle", dir |-> "none", cwd |-> "none", m |-> FALSE]

\* No caller has called Chdir yet.  calls[g] holds the locals of the call
\* of caller g: at, its position; dir, the argument; cwd, the local
\* that receives getcwd(); m, the state of the local sync.Mutex.
InitChdir ==
    /\ NoSession
    /\ crashed = "no"
    /\ frame = [cwd |-> "cwd0", calls |-> [g \in Handlers |-> NoCall]]

\* var m sync.Mutex; m.Lock(): the mutex is a local of this call, made
\* unlocked, so the Lock is taken at once whatever other callers do.
ChdirLock(g, dir) ==
    /\ crashed = "no"
    /\ frame.calls[g].at = "idle"
    /\ frame' = [frame EXCEPT !.calls[g] =
                    [at |-> "locked", dir |-> dir, cwd |-> "none", m |-> TRUE]]
    /\ UNCHANGED <<sessionVars, crashed>>

\* if err := v.Eval("getcwd()", &cwd); err != nil { return nil }
ChdirGetcwd(g, ok) ==
    /\ crashed = "no"
    /\ frame.calls[g].at = "locked"
    /\ frame' = IF ok
                THEN [frame EXCEPT !.calls[g].at = "evaluated",
                                   !.calls[g].cwd = frame.cwd]
                ELSE [frame EXCEPT !.calls[g].at = "returned_nil"]
    /\ UNCHANGED <<sessionVars, crashed>>

\* v.ChangeDirectory(dir); return func() {...}
ChdirChange(g) ==
    /\ crashed = "no"
    /\ frame.calls[g].at = "evaluated"
    /\ frame' = [frame EXCEPT !.cwd = frame.calls[g].dir,
                              !.calls[g].at = "returned_func"]
    /\ UNCHANGED <<sessionVars, crashed>>

\* The caller runs the returned function:
\* v.ChangeDirectory(cwd.(string)); m.Unlock().
ChdirRestore(g) ==
    /\ crashed = "no"
    /\ frame.calls[g].at = "returned_func"
    /\ frame' = [frame EXCEPT !.cwd = frame.calls[g].cwd,
                              !.calls[g].at = "restored",
                              !.calls[g].m = FALSE]
    /\ UNCHANGED <<sessionVars, crashed>>

\* The caller runs the returned value when it is nil (defer Chdir(v, dir)()):
\* a nil function call panics.
ChdirCallNil(g) ==
    /\ crashed = "no"
    /\ frame.calls[g].at = "returned_nil"
    /\ crashed' = "nil-func"
    /\ UNCHANGED <<sessionVars, frame>>

NextChdir ==
    \E g \in Handlers :
       \/ \E dir \in Dirs : ChdirLock(g, dir)
       \/ \E ok \in BOOLEAN : ChdirGetcwd(g, ok)
       \/ ChdirChange(g)
       \/ ChdirRestore(g)
       \/ ChdirCallNil(g)

SpecChdir == InitChdir /\ [][NextChdir]_vars

\* A caller is between its m.Lock() and the m.Unlock() of its restore.
InSection(g) ==
    frame.calls[g].at \in {"locked", "evaluated", "returned_func"}

\* C33: the Chdir-to-restore sections of two callers never overlap; when
\* every caller has run its restore function the working directory is the
\* one before the first Chdir; and Chdir never returns nil.
C33_ChdirSectionsExclusive ==
    /\ \A g, h \in Handlers : (InSection(g) /\ InSection(h)) => g = h
    /\ (\A g \in Handlers : frame.calls[g].at = "restored")
          => frame.cwd = "cwd0"
    /\ \A g \in Handlers : frame.calls[g].at # "returned_nil"

\* ---------------------------------------------------- package nvim: Buffer
\* Texts to write have up to MaxText characters, a letter or the newline;
\* a buffer is a non-empty sequence of lines and is followed while it
\* holds up to MaxLines lines; at the start the buffers hold 1..InitLines.
MaxText == 2
MaxLines == 4
InitLines == 2
NL == "\n"
Texts == UNION {[1..n -> {"x", NL}] : n \in 0..MaxText}
EmptyLine == <<>>
BufLines == {EmptyLine, <<"x">>}
BufNames == {"target", "other"}

\* bytes.Split(byt, []byte{'\n'})
RECURSIVE ToBufferLines(_)
ToBufferLines(byt) ==
    IF ~Contains(byt, NL) THEN <<byt>>
    ELSE LET i == CHOOSE k \in DOMAIN byt :
                     byt[k] = NL /\ \A j \in 1..(k - 1) : byt[j] # NL
         IN  <<SubSeq(byt, 1, i - 1)>>
             \o ToBufferLines(SubSeq(byt, i + 1, Len(byt)))

\* nvim_buf_set_lines(buffer, start, -1, strict, repl) on the lines of a
\* buffer: the lines from start on are replaced; a buffer never has less
\* than one line.
SetBufferLines(lines, start, repl) ==
    LET new == SubSeq(lines, 1, start) \o repl
    IN  IF new = <<>> THEN <<EmptyLine>> ELSE new

\* v.CurrentLine(): the line under the cursor of the editor's current
\* buffer.
CurrentLine == frame.bufs[frame.current][frame.row]

\* Buffer.lineCount for b.Buffer = "target", without an RPC error.
lineCount ==
    LET n == Len(frame.bufs["target"])
    IN  IF n = 1 /\ Len(CurrentLine) = 0 THEN 0 ELSE n

\* The editor shows two buffers, b.Buffer ("target") and another one; one
\* of them is current, with the cursor on one of its lines.  last is the
\* lineCount of the last write.
InitBuffer ==
    /\ NoSession
    /\ crashed = "no"
    /\ \E t, o \in UNION {[1..n -> BufLines] : n \in 1..InitLines} :
          \E c \in BufNames :
             \E r \in 1..InitLines :
                /\ r <= Len(IF c = "target" THEN t ELSE o)
                /\ frame = [bufs |-> [b \in BufNames |->
                                         IF b = "target" THEN t ELSE o],
                            current |-> c, row |-> r, last |-> -1]

\* The body of Write and WriteString for the bytes byt; ok: no RPC fails.
\* The cursor stays on a line of the buffer.
writeBytes(byt, ok) ==
    /\ Len(frame.bufs["target"]) + Len(ToBufferLines(byt)) <= MaxLines
    /\ IF ok
       THEN LET new == SetBufferLines(frame.bufs["target"], lineCount,
                                      ToBufferLines(byt))
            IN  frame' = [frame EXCEPT
                             !.bufs["target"] = new,
                             !.last = lineCount,
                             !.row = IF frame.current = "target" /\ @ > Len(new)
                                     THEN Len(new) ELSE @]
       ELSE UNCHANGED frame
    /\ UNCHANGED <<sessionVars, crashed>>

\* func (b *Buffer) Write(p []byte) error
Write(p, ok) ==
    /\ crashed = "no"
    /\ writeBytes(p, ok)

\* func (b *Buffer) WriteString(s string) error
WriteString(str, ok) ==
    /\ crashed = "no"
    /\ writeBytes(str, ok)

\* The user makes a buffer current and puts the cursor on a line of it.
EditorMoves(c, r) ==
    /\ crashed = "no"
    /\ r <= Len(frame.bufs[c])
    /\ <<c, r>> # <<frame.current, frame.row>>
    /\ frame' = [frame EXCEPT !.current = c, !.row = r]
    /\ UNCHANGED <<sessionVars, crashed>>

NextBuffer ==
    \/ \E p \in Texts, ok \in BOOLEAN : Write(p, ok)
    \/ \E str \in Texts, ok \in BOOLEAN : WriteString(str, ok)
    \/ \E c \in BufNames, r \in 1..MaxLines : EditorMoves(c, r)

SpecBuffer == InitBuffer /\ [][NextBuffer]_vars

HasNonEmptyLine(lines) == \E i \in DOMAIN lines : lines[i] # EmptyLine

\* C34: a successful Write or WriteString to a buffer that holds a
\* non-empty line leaves the old lines in place and puts the new lines
\* after them, whichever buffer is current; the buffer is counted as
\* having 0 lines only when it is empty.
C34_WriteAppends ==
    [][\A p \in Texts :
          (Write(p, TRUE) \/ WriteString(p, TRUE))
          => /\ HasNonEmptyLine(frame.bufs["target"])
                   => frame'.bufs["target"]
                         = frame.bufs["target"] \o ToBufferLines(p)
             /\ frame'.last = 0 => frame.bufs["target"] = <<EmptyLine>>]_vars

\* ------------------------------------------- delveCommand and os.Stdout
\* Each goroutine runs up to MaxCmds free-form commands.  A file is the
\* original standard output, OrigStdout, or the write end <<g, n>> of the
\* pipe that the n-th command of goroutine g has made.
MaxCmds == 2
OrigStdout == <<0, 0>>
NoFile == <<0, 1>>
NoCmd == [at |-> "idle", n |-> 0, saveStdout |-> NoFile]

\* No command has run: os.Stdout is the original stream.  cmds[g] holds
\* the position and the locals of the command of goroutine g, closed the
\* files that have been closed.
InitStdout ==
    /\ NoSession
    /\ crashed = "no"
    /\ frame = [Stdout |-> OrigStdout, closed |-> {},
                cmds |-> [g \in Handlers |-> NoCmd]]

\* cmdDelveCommand: go delveCommand(v, args);
\* r, w, _ := os.Pipe(); saveStdout := os.Stdout
CommandSave(g) ==
    /\ crashed = "no"
    /\ frame.cmds[g].at = "idle"
    /\ frame.cmds[g].n < MaxCmds
    /\ frame' = [frame EXCEPT !.cmds[g] = [at |-> "saved", n |-> @.n + 1,
                                           saveStdout |-> frame.Stdout]]
    /\ UNCHANGED <<sessionVars, crashed>>

\* os.Stdout = w; delve.debugger.Call(...) is running.
CommandSwap(g) ==
    /\ crashed = "no"
    /\ frame.cmds[g].at = "saved"
    /\ frame' = [frame EXCEPT !.Stdout = <<g, frame.cmds[g].n>>,
                              !.cmds[g].at = "call"]
    /\ UNCHANGED <<sessionVars, crashed>>

\* err := delve.debugger.Call(...); if err != nil { return err }
CommandReturns(g, ok) ==
    /\ crashed = "no"
    /\ frame.cmds[g].at = "call"
    /\ frame' = [frame EXCEPT !.cmds[g].at = IF ok THEN "close" ELSE "idle"]
    /\ UNCHANGED <<sessionVars, crashed>>

\* w.Close(); os.Stdout = saveStdout; the output is read and printed and
\* the handler returns.
CommandRestore(g) ==
    /\ crashed = "no"
    /\ frame.cmds[g].at = "close"
    /\ frame' = [frame EXCEPT
                    !.closed = @ \cup {<<g, frame.cmds[g].n>>},
                    !.Stdout = frame.cmds[g].saveStdout,
                    !.cmds[g].at = "idle"]
    /\ UNCHANGED <<sessionVars, crashed>>

NextStdout ==
    \E g \in Handlers :
       \/ CommandSave(g)
       \/ CommandSwap(g)
       \/ \E ok \in BOOLEAN : CommandReturns(g, ok)
       \/ CommandRestore(g)

SpecStdout == InitStdout /\ [][NextStdout]_vars

\* C35: when every free-form command handler has returned, os.Stdout is
\* the original stream, not a pipe and not a closed file.
C35_StdoutRestored ==
    (\A g \in Handlers : frame.cmds[g].at = "idle")
    => frame.Stdout = OrigStdout /\ frame.Stdout \notin frame.closed

\* ------------------------------------------------- the breakpoint signs
\* The user sets up to MaxSignBps breakpoints, in the files of SignFiles;
\* the default breakpoint is in PanicFile.
MaxSignBps == 2
PanicFile == "panic.go"
SignFiles == {"main.go", "util.go"}
ThreadFiles == SignFiles \cup {PanicFile}

\* delveStartClient has made delve.pcSign and the empty delve.bpSign and
\* is about to seed the registry.  frame holds files, the File of each
\* breakpoint of the server; bpSign, the keys of delve.bpSign whose value
\* is a Sign; name, src.name; shown, the ids of the breakpoint signs
\* placed in the source buffer; nilUsed, whether a method has been called
\* on a missing entry of delve.bpSign.
InitSign ==
    /\ server = "running"
    /\ orphans = 0
    /\ delve = [client |-> "open", procPid |-> SrvPid]
    /\ srvBps = FreshBps
    /\ breakpoints = EmptyMap
    /\ srvExited = FALSE
    /\ pc = [g \in Handlers |-> IF g = 1 THEN "sc_seed" ELSE "idle"]
    /\ followups = {}
    /\ buffer = FALSE
    /\ output = NoOutput
    /\ frame = [files |-> [id \in {PanicBpId} |-> PanicFile], bpSign |-> {},
                name |-> "", shown |-> {}, nilUsed |-> FALSE]
    /\ payload = [g \in Handlers |-> <<>>]
    /\ idx = [g \in Handlers |-> 0]
    /\ ret = NoRet
    /\ crashed = "no"
    /\ reported = "none"

\* The id the server gives to the next breakpoint.
NextSignId == Cardinality(DOMAIN srvBps)

\* delveBreakpoint for a function of file f: CreateBreakpoint (ok: the
\* server accepts it), delve.breakpoints[newbp.ID] = newbp, and
\* if delve.bpSign[newbp.File] == nil { ... = nvim.NewSign(...) }
\* (signOk: NewSign returns a Sign and no error).
BreakpointSign(g, f, ok, signOk) ==
    /\ At(g, "idle")
    /\ NextSignId <= MaxSignBps
    /\ IF ~ok
       THEN /\ ret' = [cmd |-> "breakpoint", val |-> "err"]
            /\ UNCHANGED <<srvBps, breakpoints, frame>>
       ELSE /\ srvBps' = [id \in DOMAIN srvBps \cup {NextSignId} |->
                            IF id = NextSignId THEN 0 ELSE srvBps[id]]
            /\ breakpoints' =
                 [id \in DOMAIN breakpoints \cup {NextSignId} |->
                    IF id = NextSignId THEN Bp(id, "mainMain", 0, 0)
                    ELSE breakpoints[id]]
            /\ frame' = [frame EXCEPT
                  !.files = [id \in DOMAIN srvBps \cup {NextSignId} |->
                               IF id = NextSignId THEN f ELSE frame.files[id]],
                  !.bpSign = IF signOk THEN @ \cup {f} ELSE @]
            /\ ret' = [cmd |-> "breakpoint",
                       val |-> IF f \in frame.bpSign \/ signOk
                               THEN "nil" ELSE "err"]
    /\ UNCHANGED <<server, orphans, delve, srvExited, pc, followups, buffer,
                   output, payload, idx, crashed, reported>>

\* The registered breakpoints whose file has no Sign in delve.bpSign.
MissingSigns ==
    {id \in DOMAIN breakpoints : frame.files[id] \notin frame.bpSign}

\* parseThread for a thread stopped in file f, from
\* if src.name != thread.File on: the source buffer shows f and every
\* registered breakpoint has its sign placed (bp.File == thread.File) or
\* unplaced.  Place or Unplace on a missing entry of delve.bpSign is a
\* method call on a nil *nvim.Sign: it panics (panics = TRUE) or it sends
\* its command as if the Sign were there.
parseThreadSigns(g, f, panics) ==
    /\ At(g, "idle")
    /\ DOMAIN breakpoints # {}
    /\ IF frame.name = f
       THEN /\ ret' = [cmd |-> "parseThread", val |-> "nil"]
            /\ UNCHANGED <<frame, breakpoints, server, delve, pc, followups,
                           buffer, output, payload, idx, crashed, reported>>
       ELSE IF MissingSigns # {} /\ panics
       THEN Crash("nil-sign")
       ELSE /\ frame' = [frame EXCEPT
                  !.name = f,
                  !.shown = {id \in DOMAIN breakpoints : frame.files[id] = f},
                  !.nilUsed = @ \/ MissingSigns # {}]
            /\ ret' = [cmd |-> "parseThread", val |-> "nil"]
            /\ UNCHANGED <<breakpoints, server, delve, pc, followups,
                           buffer, output, payload, idx, crashed, reported>>
    /\ UNCHANGED <<orphans, srvBps, srvExited>>

NextSign ==
    \/ StartClientSeed(1)
    \/ \E f \in SignFiles, ok \in BOOLEAN, signOk \in BOOLEAN :
          BreakpointSign(1, f, ok, signOk)
    \/ \E f \in ThreadFiles, panics \in BOOLEAN : parseThreadSigns(1, f, panics)
    \/ Finish

SpecSign == InitSign /\ [][NextSign]_vars

\* C36: every breakpoint of the registry, the default one included, has
\* a Sign in delve.bpSign for its file, and the place/unplace loop never
\* calls a method on a missing entry.
C36_EveryBreakpointHasSign ==
    crashed = "no" => MissingSigns = {} /\ ~frame.nilUsed

\* C38: when a stop has been processed the signs placed in the source
\* buffer are those of the registered breakpoints whose file is the file
\* shown.
C38_ShownSignsMatchRegistry ==
    [][(\E f \in ThreadFiles, panics \in BOOLEAN : parseThreadSigns(1, f, panics))
          /\ crashed' = "no"
       => frame'.shown = {id \in DOMAIN breakpoints' :
                             frame'.files[id] = frame'.name}]_vars

\* ------------------------- package delve: the marker of the current line
\* The debuggee stops up to MaxStops times; the n-th stop is at line n.
MaxStops == 2

\* The session of InitCont.  frame holds stops, the number of stops so
\* far (the line of the latest one); cThread, for each handler the line
\* of the stop it has received; pcSign and cursor, the line of the
\* program-counter sign and of the cursor of the source window (0: not
\* set yet).
InitMarker ==
    /\ server = "running"
    /\ orphans = 0
    /\ delve = [client |-> "open", procPid |-> SrvPid]
    /\ breakpoints = EmptyMap
    /\ srvBps = FreshBps
    /\ srvExited = FALSE
    /\ pc = [g \in Handlers |-> "idle"]
    /\ followups = {}
    /\ buffer = FALSE
    /\ output = NoOutput
    /\ frame = [stops |-> 0, cThread |-> [g \in Handlers |-> 0],
                pcSign |-> 0, cursor |-> 0]
    /\ payload = [g \in Handlers |-> <<>>]
    /\ idx = [g \in Handlers |-> 0]
    /\ ret = NoRet
    /\ crashed = "no"
    /\ reported = "none"

\* The state has arrived with the debuggee stopped at the next line:
\* cThread := state.CurrentThread, and the three goroutines are started
\* with it.
StoppedAtLine(g) ==
    /\ At(g, "cont_wait") \/ At(g, "next_wait")
    /\ ~srvExited
    /\ frame.stops < MaxStops
    /\ reported' = "stopped"
    /\ frame' = [frame EXCEPT !.stops = @ + 1, !.cThread[g] = frame.stops + 1]
    /\ pc' = [pc EXCEPT ![g] = IF @ = "cont_wait" THEN "cont_print"
                                                  ELSE "next_print"]
    /\ followups' = followups \cup {<<g, k>> : k \in FollowUpKinds}
    /\ UNCHANGED <<server, orphans, delve, breakpoints, srvBps, srvExited,
                   buffer, output, payload, idx, ret, crashed>>

\* One of the started goroutines runs to its end:
\* d.pcSign.Place(v, cThread.ID, cThread.Line, ...) puts the sign on the
\* line of its cThread, v.SetWindowCursor(d.cw, {cThread.Line, 0}) the
\* cursor; the third one prints the context.
FollowUpRuns(t) ==
    /\ Live
    /\ t \in followups
    /\ followups' = followups \ {t}
    /\ frame' = IF t[2] = "sign"
                THEN [frame EXCEPT !.pcSign = frame.cThread[t[1]]]
                ELSE IF t[2] = "cursor"
                THEN [frame EXCEPT !.cursor = frame.cThread[t[1]]]
                ELSE frame
    /\ UNCHANGED <<server, orphans, delve, breakpoints, srvBps, srvExited,
                   pc, buffer, output, payload, idx, ret, crashed, reported>>

NextMarker ==
    \/ \E g \in Handlers :
          \/ cmdContinue(g)
          \/ cmdNext(g)
          \/ StoppedAtLine(g)
          \/ PrintTerminalReturn(g)
    \/ \E t \in Handlers \X FollowUpKinds : FollowUpRuns(t)
    \/ Finish

SpecMarker == InitMarker /\ [][NextMarker]_vars

\* C37: when no goroutine of a stop is pending the program-counter sign
\* and the cursor are on the line of the latest stop.
C37_MarkerShowsLatestStop ==
    (crashed = "no" /\ followups = {} /\ frame.stops > 0)
    => frame.pcSign = frame.stops /\ frame.cursor = frame.stops

\* -------------------------------------------------------------- printBuffer
\* The lines handed to printBuffer: what bytes.Split returns for a text
\* of one or two lines.
PrintData == {<<<<"x">>>>, <<<<"x">>, <<"x">>>>}
NoPrint == [at |-> "idle", append |-> FALSE, data |-> <<>>, start |-> 0,
            n |-> 0]

\* A new, empty buffer that is not modifiable; no printBuffer runs.
\* frame holds lines, the lines of the buffer; modifiable, its option;
\* calls, for each handler the position, the arguments and the locals of
\* its printBuffer call (n: the line count it returns).
InitPrint ==
    /\ NoSession
    /\ crashed = "no"
    /\ frame = [lines |-> <<EmptyLine>>, modifiable |-> FALSE,
                calls |-> [g \in Handlers |-> NoPrint]]

\* printBuffer(v, b, append, data) is called by a handler goroutine:
\* if append { start, err = v.BufferLineCount(b) }
printBufferStart(g, append, data, ok) ==
    /\ crashed = "no"
    /\ frame.calls[g].at = "idle"
    /\ Len(frame.lines) + Len(data) <= MaxLines
    /\ frame' = IF append /\ ~ok
                THEN [frame EXCEPT !.calls[g].n = 0]
                ELSE [frame EXCEPT !.calls[g] =
                        [at |-> "check", append |-> append, data |-> data,
                         start |-> IF append THEN Len(frame.lines) ELSE 0,
                         n |-> 0]]
    /\ UNCHANGED <<sessionVars, crashed>>

\* if start == 1 { buf, err := v.BufferLines(b, 0, -1, true);
\* if len(buf[0]) == 0 { start = 0 } }
printBufferCheck(g, ok) ==
    /\ crashed = "no"
    /\ frame.calls[g].at = "check"
    /\ frame' = IF frame.calls[g].start # 1
                THEN [frame EXCEPT !.calls[g].at = "option"]
                ELSE IF ~ok
                THEN [frame EXCEPT !.calls[g] = NoPrint]
                ELSE [frame EXCEPT
                         !.calls[g].at = "option",
                         !.calls[g].start = IF Len(frame.lines[1]) = 0
                                            THEN 0 ELSE 1]
    /\ UNCHANGED <<sessionVars, crashed>>

\* v.SetBufferOption(b, "modifiable", true)
printBufferModifiable(g) ==
    /\ crashed = "no"
    /\ frame.calls[g].at = "option"
    /\ frame' = [frame EXCEPT !.modifiable = TRUE, !.calls[g].at = "write"]
    /\ UNCHANGED <<sessionVars, crashed>>

\* start + len(data), v.SetBufferLines(b, start, -1, true, data): the
\* editor may refuse the write (applied = FALSE) when the buffer is not
\* modifiable; strict indexing refuses a start beyond the last line.
printBufferWrite(g, applied) ==
    /\ crashed = "no"
    /\ frame.calls[g].at = "write"
    /\ applied \/ ~frame.modifiable \/ frame.calls[g].start > Len(frame.lines)
    /\ frame' = [frame EXCEPT
                    !.lines = IF applied
                                 /\ frame.calls[g].start <= Len(frame.lines)
                              THEN SetBufferLines(@, frame.calls[g].start,
                                                  frame.calls[g].data)
                              ELSE @,
                    !.calls[g].n = frame.calls[g].start
                                      + Len(frame.calls[g].data),
                    !.calls[g].at = "deferred"]
    /\ UNCHANGED <<sessionVars, crashed>>

\* defer v.SetBufferOption(b, "modifiable", false), and the return.
printBufferReturn(g) ==
    /\ crashed = "no"
    /\ frame.calls[g].at = "deferred"
    /\ frame' = [frame EXCEPT !.modifiable = FALSE, !.calls[g].at = "idle"]
    /\ UNCHANGED <<sessionVars, crashed>>

NextPrint ==
    \E g \in Handlers :
       \/ \E append \in BOOLEAN, data \in PrintData, ok \in BOOLEAN :
             printBufferStart(g, append, data, ok)
       \/ \E ok \in BOOLEAN : printBufferCheck(g, ok)
       \/ printBufferModifiable(g)
       \/ \E applied \in BOOLEAN : printBufferWrite(g, applied)
       \/ printBufferReturn(g)

SpecPrint == InitPrint /\ [][NextPrint]_vars

\* C39: SetBufferLines is sent while modifiable is true; when a
\* printBuffer returns, the count it returns is the number of lines of
\* the buffer; and modifiable is false when no printBuffer is running.
C39_WritesWhileModifiable ==
    [][\A g \in Handlers :
          /\ (\E applied \in BOOLEAN : printBufferWrite(g, applied))
                => frame.modifiable
          /\ printBufferReturn(g)
                => /\ frame.calls[g].n = Len(frame.lines)
                   /\ (\A h \in Handlers : frame'.calls[h].at = "idle")
                         => ~frame'.modifiable]_vars

====
